---- MODULE Spec2Model ----
(***************************************************************************)
(* Control plane of finbro.browser: the tab manager (src/main/tabs.ts,     *)
(* second TabsManager revision), the window lifecycle that constructs it   *)
(* (src/main/windows.ts, src/main/main.ts), the automation WebSocket       *)
(* client with its status store and its command dispatch                  *)
(* (websocket-client, src/unnamed/part_018), the authentication manager    *)
(* (src/main/auth.ts), the tool-call AgentBridge (src/main/tabs.ts, lines  *)
(* 857-1087) with the tool executor (src/main/tools/executor.ts), and the  *)
(* CdpClient (src/main/auth.ts, lines 43-325).                             *)
(***************************************************************************)
EXTENDS Integers, Sequences, FiniteSets, TLC

(* ---------------------------- bounds ----------------------------------- *)
\* ids a single TabsManager may hand out before createTab is disabled
MaxTabIds == 3
\* number of main windows (and so TabsManager instances) created per process
MaxWindows == 2
\* WebSocket objects that may be alive (not yet closed) at the same time
MaxSockets == 2
\* setTimeout handles that may be pending at the same time
MaxTimers == 2
\* scope of the application scenarios (SpecApp): ids handed out, sockets
\* not yet closed and timers pending at the same time
MaxAppTabIds == 2
MaxAppSockets == 1
MaxAppTimers == 1
\* scope of the command scenarios (SpecDispatch): ids handed out and
\* handlers suspended at an await at the same time
MaxWireTabIds == 2
MaxPending == 2
\* scope of the asynchronous completion scenarios (SpecAsync)
MaxAsyncTabIds == 3
MaxAsyncPending == 2
\* scope of the CdpClient scenarios (SpecCdp): ids handed out, sockets not
\* yet closed and commands awaiting the engine at the same time
MaxCdpTabIds == 2
MaxCdpSockets == 1
MaxCdpPending == 1
\* scope of the tool-call scenarios (SpecTools)
MaxToolTabIds == 2
MaxToolPending == 2
\* scope of the status scenarios (SpecStatus): tab ids named by animation
\* messages, sockets not yet closed and timers pending at the same time
MaxStatusTabIds == 2
MaxStatusSockets == 1
MaxStatusTimers == 1
\* scope of the file-sync scenarios (SpecSync): files the server knows and
\* handleSignedUrls calls downloading at the same time
MaxSyncFiles == 2
MaxSyncHandlers == 1
\* command sessions over a connection that is lost and remade
MaxSessionTabIds == 2
MaxSessionPending == 1
MaxSessionSockets == 2
MaxSessionTimers == 1

(* ------------------------- program constants --------------------------- *)
NORMAL_CLOSURE == 1000
AUTH_REJECTED == 4001
\* ws library: code reported when the closing handshake carried no status
\* code (1005)
NO_STATUS == NORMAL_CLOSURE + 5
\* ws library: code reported when the connection dropped without a close
\* frame (1006)
ABNORMAL == NORMAL_CLOSURE + 6
maxReconnectAttempts == 10
\* AgentBridge: config.reconnectInterval and the cap of the backoff, in ms
reconnectInterval == 5000
maxReconnectDelay == 60000
AutoReconnect == TRUE
\* config.startupTabs holds one url by default
StartupTabs == 1

Urls == {"u1", "u2"}
Tokens == {"t1", "t2"}
NoToken == "null"
TabIds == 0 .. (MaxTabIds - 1)
SocketIds == 1 .. MaxSockets
TimerIds == 1 .. MaxTimers
CloseCodes == {NORMAL_CLOSURE, NO_STATUS, ABNORMAL, AUTH_REJECTED}

VARIABLES
  \* TabsManager (the instance ipc.ts refers to)
  tabs,             \* this.tabs: sequence of [id, url]
  currentTabId,     \* this.currentTabId
  nextId,           \* this.nextId
  attached,         \* ids of the tabs whose BrowserView is added to the window
  \* windows.ts
  windowOpen,       \* mainWindow # null
  mgr,              \* ordinal of the TabsManager instance in use (1, 2, ...)
  \* websocket-client module state
  ws,               \* module variable ws: 0 (null) or a socket
  currentToken,     \* module variable currentToken
  reconnectTimeout, \* module variable reconnectTimeout: 0 (null) or a handle
  tabStates,        \* Map<number, TabState>
  \* ipc.ts
  currentTabStates, \* the map the last notifyAnimationStateChange stored
  \* overlay-state.ts
  overlayStates,    \* Map<number, OverlayState>
  \* auth.ts
  authToken,        \* auth.ts currentToken
  \* AgentBridge instance
  bridgeWs,         \* this.ws
  state,            \* this.state
  reconnectTimer,   \* this.reconnectTimer: 0 (null) or a handle
  reconnectAttempts,\* this.reconnectAttempts
  reconnectDelay,   \* the delay scheduleReconnect last passed to setTimeout
  \* environment: the ws library and the timer queue
  sockets,          \* per WebSocket object: readyState and what was sent on it
  timers,           \* handles of the pending setTimeout callbacks
  urlValid,         \* whether the configured endpoint url is well formed
  impl,             \* which RemoteConnection the build wires in
  \* CdpClient instance
  cdpWs,            \* this.ws
  cdpState,         \* this.state
  debuggerAttached, \* this.debuggerAttached
  \* history
  requested,        \* the last explicit request: connect or disconnect
  rejected,         \* a close with 4001 was seen since the last connect request
  issued,           \* ids allocated by createTab, in call order, with manager
  lastOp,           \* the handler that ran last, its argument and preconditions
  \* command dispatch of the websocket-client
  dbg,              \* ids of the tabs whose webContents.debugger is attached
  pending,          \* handlers suspended at an await: createTab, sendCommand
  sentNow,          \* history: response frames written by the last step
  lastFrame,        \* history: the inbound frame handled by the last step
  lastOutcome,      \* history: how the await resumed by the last step settled
  \* file-sync module state
  syncWs,           \* module variable ws of file-sync: "null" or a readyState
  localIds,         \* Set<string> of the file ids in metadata.txt
  isSyncing,        \* module variable isSyncing
  downloads,        \* handleSignedUrls calls in flight: the files still to get
  syncSent,         \* history: frames written by the last file-sync step
  lastSync          \* history: the file-sync handler that ran last

tabVars == <<tabs, currentTabId, nextId, attached, windowOpen, mgr, issued>>
clientVars == <<ws, currentToken, reconnectTimeout, authToken>>
bridgeVars == <<bridgeWs, state, reconnectTimer, reconnectAttempts,
                reconnectDelay>>
envVars == <<sockets, timers>>
cdpVars == <<cdpWs, cdpState, debuggerAttached>>
dispatchVars == <<dbg, pending, sentNow, lastFrame, lastOutcome>>
storeVars == <<tabStates, currentTabStates, overlayStates>>
syncVars == <<syncWs, localIds, isSyncing, downloads, syncSent, lastSync>>
vars == <<tabs, currentTabId, nextId, attached, windowOpen, mgr, ws,
          currentToken, reconnectTimeout, tabStates, currentTabStates,
          overlayStates, authToken, bridgeWs,
          state, reconnectTimer, reconnectAttempts, reconnectDelay, sockets,
          timers, urlValid, impl, cdpWs, cdpState, debuggerAttached,
          requested, rejected, issued, lastOp, dbg, pending,
          sentNow, lastFrame, lastOutcome, syncWs, localIds, isSyncing,
          downloads, syncSent, lastSync>>

(* ----------------------------- helpers --------------------------------- *)
Ids(ts) == {ts[i].id : i \in 1 .. Len(ts)}

HasTab(ts, id) == \E i \in 1 .. Len(ts) : ts[i].id = id

\* Array.prototype.findIndex, 1-based; 0 when absent
FindIndex(ts, id) ==
  IF HasTab(ts, id)
    THEN CHOOSE i \in 1 .. Len(ts) :
           ts[i].id = id /\ \A j \in 1 .. (i - 1) : ts[j].id # id
    ELSE 0

\* Array.prototype.splice(index, 1)
Splice(ts, i) == SubSeq(ts, 1, i - 1) \o SubSeq(ts, i + 1, Len(ts))

MinOf(S) == CHOOSE m \in S : \A n \in S : m <= n

\* a WebSocket object slot: readyState, whether the handshake completed, the
\* code passed to a local close() (0: not closed locally; NO_STATUS: close()
\* without a code) and the number of registration frames written to it
NoSocket ==
  [rs |-> "NONE", opened |-> FALSE, closeSent |-> 0, reg |-> 0,
   token |-> NoToken]
FreshSocket ==
  [rs |-> "CONNECTING", opened |-> FALSE, closeSent |-> 0, reg |-> 0,
   token |-> NoToken]

EmptyMap == [k \in {} |-> "none"]
MapSet(m, k, v) == [x \in DOMAIN m \cup {k} |-> IF x = k THEN v ELSE m[x]]

\* history record of a handler run: its name, its argument, whether its
\* target existed (pre) and a second precondition of the handler (aux)
OpX(name, arg, pre, aux) == [op |-> name, arg |-> arg, pre |-> pre, aux |-> aux]
Op(name, arg, pre) == OpX(name, arg, pre, FALSE)

\* a decoded inbound frame; "none" stands for an absent field, hasParams for
\* the presence of the params object and hasTabId, hasUrl, hasMethod for the
\* presence of tab_id, url and method (in params, or in an animation frame);
\* method and args are the values of params.method and params.args
Frame(type, id, action, hasParams, hasTabId, tab_id, hasUrl, focus, hasMethod) ==
  [type |-> type, id |-> id, action |-> action, hasParams |-> hasParams,
   hasTabId |-> hasTabId, tab_id |-> tab_id, hasUrl |-> hasUrl,
   focus |-> focus, hasMethod |-> hasMethod,
   method |-> IF hasMethod THEN "m1" ELSE "none", args |-> "absent"]
NoFrame == Frame("none", "none", "none", FALSE, FALSE, 0, FALSE, "none", FALSE)

\* a cdp command frame with its method and args
CdpCall(id, tab_id, method, args) ==
  [Frame("none", id, "cdp", TRUE, TRUE, tab_id, FALSE, "none", TRUE)
     EXCEPT !.method = method, !.args = args]

\* how an awaited engine call settles: it resolves with a value or rejects
\* with an Error that has a message
Resolved(v) == [ok |-> TRUE, isError |-> FALSE, value |-> v]
Rejected(m) == [ok |-> FALSE, isError |-> TRUE, value |-> m]
NoOutcome == [ok |-> FALSE, isError |-> FALSE, value |-> "none"]

\* file-sync: the handler that ran, with isSyncing and localIds as they were
\* when it started
SyncOp(name, syncing, ids) == [op |-> name, syncing |-> syncing, ids |-> ids]

\* file-sync module state when the module is loaded
SyncIdle ==
  /\ syncWs = "null"
  /\ localIds = {}
  /\ isSyncing = FALSE
  /\ downloads = <<>>
  /\ syncSent = <<>>
  /\ lastSync = SyncOp("none", FALSE, {})

(* ============================ TabsManager ============================== *)

\* `id: this.nextId++` : the value of nextId after one allocation
AllocIdStuck(n) == n
AllocId(n) == n + 1

\* the views in the window after createTab made the view of tab `id`
CreateTabViewsEarlier(att, id) == att \cup {id}
CreateTabViews(att, id) == att

\* switchTo(tabId): resulting currentTabId
SwitchToCurrentKept(ts, cur, tabId) == cur
SwitchToCurrent(ts, cur, tabId) == IF HasTab(ts, tabId) THEN tabId ELSE cur

\* switchTo(tabId): resulting set of attached views
SwitchToViewsCleared(ts, att, tabId) ==
  IF HasTab(ts, tabId) THEN (att \ Ids(ts)) \cup {tabId} ELSE att \ Ids(ts)
SwitchToViews(ts, att, tabId) ==
  IF HasTab(ts, tabId) THEN (att \ Ids(ts)) \cup {tabId} ELSE att

\* closeTab: the tab switched to once the current tab is gone
CloseTabNextLast(ts) == ts[Len(ts)].id
CloseTabNext(ts) == ts[1].id

\* closeTab(tabId): resulting tabs, currentTabId and attached views
CloseTabResult(ts, cur, att, tabId) ==
  LET index == FindIndex(ts, tabId) IN
  IF index = 0
    THEN [tabs |-> ts, cur |-> cur, att |-> att]
    ELSE LET ts1 == Splice(ts, index)
             att1 == att \ {tabId}
         IN IF cur = tabId /\ Len(ts1) > 0
              THEN [tabs |-> ts1,
                    cur |-> SwitchToCurrent(ts1, cur, CloseTabNext(ts1)),
                    att |-> SwitchToViews(ts1, att1, CloseTabNext(ts1))]
              ELSE [tabs |-> ts1, cur |-> cur, att |-> att1]

\* a fresh TabsManager followed by createStartupTabs (windows.ts)
StartupTabList == [i \in 1 .. StartupTabs |-> [id |-> i - 1, url |-> "u1"]]
StartupIssued(m) == [i \in 1 .. StartupTabs |-> [mgr |-> m, id |-> i - 1]]

Init ==
  /\ tabs = StartupTabList
  /\ currentTabId = SwitchToCurrent(StartupTabList, -1, 0)
  /\ nextId = StartupTabs
  /\ attached = SwitchToViews(StartupTabList, {}, 0)
  /\ windowOpen = TRUE
  /\ mgr = 1
  /\ ws = 0
  /\ currentToken = NoToken
  /\ reconnectTimeout = 0
  /\ tabStates = EmptyMap
  /\ currentTabStates = EmptyMap
  /\ overlayStates = EmptyMap
  /\ authToken = NoToken
  /\ bridgeWs = 0
  /\ state = "disconnected"
  /\ reconnectTimer = 0
  /\ reconnectAttempts = 0
  /\ reconnectDelay = 0
  /\ cdpWs = 0
  /\ cdpState = "disconnected"
  /\ debuggerAttached = FALSE
  /\ sockets = [s \in SocketIds |-> NoSocket]
  /\ timers = {}
  /\ urlValid \in BOOLEAN
  /\ impl \in {"client", "bridge"}
  /\ requested = "none"
  /\ rejected = FALSE
  /\ issued = StartupIssued(1)
  /\ lastOp = Op("init", 0, FALSE)
  /\ dbg = {}
  /\ pending = {}
  /\ sentNow = <<>>
  /\ lastFrame = NoFrame
  /\ lastOutcome = NoOutcome
  /\ SyncIdle

\* handleTabCreate -> TabsManager.createTab(url)
CreateTab(url) ==
  /\ windowOpen
  /\ nextId < MaxTabIds
  /\ tabs' = Append(tabs, [id |-> nextId, url |-> url])
  /\ nextId' = AllocId(nextId)
  /\ attached' = CreateTabViews(attached, nextId)
  /\ issued' = Append(issued, [mgr |-> mgr, id |-> nextId])
  /\ lastOp' = Op("createTab", nextId, FALSE)
  /\ UNCHANGED <<currentTabId, windowOpen, mgr>>

\* handleTabSwitch -> TabsManager.switchTo(tabId)
SwitchTo(tabId) ==
  /\ windowOpen
  /\ currentTabId' = SwitchToCurrent(tabs, currentTabId, tabId)
  /\ attached' = SwitchToViews(tabs, attached, tabId)
  /\ lastOp' = OpX("switchTo", tabId, HasTab(tabs, tabId),
                    attached # {} /\ attached # {tabId})
  /\ UNCHANGED <<tabs, nextId, windowOpen, mgr, issued>>

\* handleTabClose -> TabsManager.closeTab(tabId)
CloseTab(tabId) ==
  /\ windowOpen
  /\ LET r == CloseTabResult(tabs, currentTabId, attached, tabId) IN
       /\ tabs' = r.tabs
       /\ currentTabId' = r.cur
       /\ attached' = r.att
       /\ lastOp' = OpX("closeTab", tabId, HasTab(tabs, tabId),
                        currentTabId = tabId)
  /\ UNCHANGED <<nextId, windowOpen, mgr, issued>>

\* handleTabNavigate -> TabsManager.navigateTab(tabId, url)
NavigateTab(tabId, url) ==
  /\ windowOpen
  /\ tabs' = [i \in 1 .. Len(tabs) |->
                IF tabs[i].id = tabId THEN [tabs[i] EXCEPT !.url = url]
                                      ELSE tabs[i]]
  /\ lastOp' = Op("navigate", tabId, HasTab(tabs, tabId))
  /\ UNCHANGED <<currentTabId, nextId, attached, windowOpen, mgr, issued>>

\* window 'closed' handler (windows.ts): manager.destroy()
WindowClosed ==
  /\ windowOpen
  /\ tabs' = <<>>
  /\ currentTabId' = -1
  /\ attached' = {}
  /\ windowOpen' = FALSE
  /\ lastOp' = Op("windowClosed", 0, FALSE)
  /\ UNCHANGED <<nextId, mgr, issued>>

\* app 'activate' handler (main.ts) -> createMainWindow (windows.ts)
CreateMainWindow ==
  /\ ~windowOpen
  /\ mgr < MaxWindows
  /\ mgr' = mgr + 1
  /\ windowOpen' = TRUE
  /\ tabs' = StartupTabList
  /\ nextId' = StartupTabs
  /\ currentTabId' = SwitchToCurrent(StartupTabList, -1, 0)
  /\ attached' = SwitchToViews(StartupTabList, {}, 0)
  /\ issued' = issued \o StartupIssued(mgr + 1)
  /\ lastOp' = Op("createMainWindow", 0, FALSE)

TabsNext ==
  \/ \E url \in Urls : CreateTab(url)
  \/ \E tabId \in TabIds : SwitchTo(tabId)
  \/ \E tabId \in TabIds : CloseTab(tabId)
  \/ \E tabId \in TabIds, url \in Urls : NavigateTab(tabId, url)
  \/ WindowClosed
  \/ CreateMainWindow

NextTabs ==
  /\ TabsNext
  /\ UNCHANGED <<clientVars, storeVars, bridgeVars, envVars, urlValid, impl,
                 syncVars, cdpVars,
                 requested, rejected, dispatchVars>>

SpecTabs == Init /\ [][NextTabs]_vars

(* ------------------------- tab manager claims -------------------------- *)

SameManager(i, j) == issued[i].mgr = issued[j].mgr

\* C1 as stated: over the whole process the ids handed out by createTab are
\* strictly increasing, so no id is handed out twice, also across a
\* TabsManager torn down with its window and re-created for a new one.
C1_IdsIncreaseProcessWide ==
  \A i, j \in 1 .. Len(issued) : i < j => issued[i].id < issued[j].id

\* C1 amended: the ids handed out by one TabsManager instance are strictly
\* increasing and never repeated, also after tabs of it were closed; a
\* re-created manager starts again at 0.
C1_IdsIncreasePerManager ==
  /\ \A i, j \in 1 .. Len(issued) :
       (i < j /\ SameManager(i, j)) => issued[i].id < issued[j].id
  /\ \A i \in 1 .. Len(issued) :
       (i = 1 \/ ~SameManager(i - 1, i)) => issued[i].id = 0

\* a tab was created after an earlier tab of the same manager was closed
C1_Witness ==
  /\ lastOp.op = "createTab"
  /\ \E i \in 1 .. Len(issued) :
       /\ issued[i].mgr = mgr
       /\ issued[i].id < lastOp.arg
       /\ ~HasTab(tabs, issued[i].id)
  /\ HasTab(tabs, lastOp.arg)

\* C2: whatever createTab, switchTo, closeTab and navigate calls were made,
\* at most one tab's view is attached to the window, and it is the view of
\* a tab in the registry.
C2_AtMostOneViewAttached ==
  /\ Cardinality(attached) <= 1
  /\ attached \subseteq Ids(tabs)

\* switchTo moved visibility from another tab's view to the requested one
C2_Witness ==
  /\ lastOp.op = "switchTo"
  /\ lastOp.pre
  /\ lastOp.aux
  /\ attached = {lastOp.arg}
  /\ Len(tabs) >= 2

\* C3: right after closeTab(x) of the current tab with other tabs remaining,
\* the remaining tab with the lowest id is current and its view is the one
\* attached.
C3_CloseCurrentSwitchesToLowest ==
  (lastOp.op = "closeTab" /\ lastOp.pre /\ lastOp.aux /\ tabs # <<>>) =>
    /\ currentTabId = MinOf(Ids(tabs))
    /\ attached = {currentTabId}

\* the current tab was closed while two other tabs remained
C3_Witness ==
  /\ lastOp.op = "closeTab"
  /\ lastOp.pre
  /\ lastOp.aux
  /\ Len(tabs) >= 2
  /\ currentTabId = MinOf(Ids(tabs))

\* C21: right after switchTo(t) for a tab t that createTab returned and that
\* is in the registry, getCurrentTabId() is t and the only view attached to
\* the window is t's.
C21_SwitchToMakesCurrentAndVisible ==
  (lastOp.op = "switchTo" /\ lastOp.pre) =>
    /\ currentTabId = lastOp.arg
    /\ attached = {lastOp.arg}
    /\ Cardinality({i \in 1 .. Len(tabs) : tabs[i].id \in attached}) = 1

\* switchTo was called with the id of a tab created after startup, while
\* another tab was current
C21_Witness ==
  /\ lastOp.op = "switchTo"
  /\ lastOp.pre
  /\ lastOp.aux
  /\ lastOp.arg >= StartupTabs
  /\ currentTabId = lastOp.arg

\* C31: switchTo(t) for an id t that is not in the registry returns
\* normally and leaves currentTabId, the tabs and the attached view as they
\* were.
C31_SwitchToUnknownChangesNothing ==
  [][(lastOp'.op = "switchTo" /\ ~lastOp'.pre) =>
       UNCHANGED <<currentTabId, tabs, attached, nextId>>]_vars

\* switchTo was called with the id of a tab that was closed before, while
\* another tab is current and visible
C31_Witness ==
  /\ lastOp.op = "switchTo"
  /\ ~lastOp.pre
  /\ lastOp.arg < nextId
  /\ Len(tabs) >= 1
  /\ attached = {currentTabId}
  /\ HasTab(tabs, currentTabId)

\* C34: getCurrentTabId() is -1 or the id of a tab in the registry, in
\* every reachable state.
C34_CurrentTabIsRegistered ==
  currentTabId = -1 \/ HasTab(tabs, currentTabId)

(* ================== environment: ws library, timers ==================== *)

Live(s) == sockets[s].rs \in {"CONNECTING", "OPEN"}
LiveSockets == {s \in SocketIds : Live(s)}

\* a slot no variable refers to and whose socket can emit no further event
FreeSlot(s) ==
  /\ sockets[s].rs \in {"NONE", "CLOSED"}
  /\ s # ws
  /\ s # bridgeWs
NewSocketId == MinOf({s \in SocketIds : FreeSlot(s)})
CanCreateSocket == \E s \in SocketIds : FreeSlot(s)

NewTimerId == MinOf(TimerIds \ timers)
CanCreateTimer == TimerIds \ timers # {}

\* WebSocket.close(code) of the ws library: the effect on the socket
LibClose(sock, code) ==
  IF sock.rs \in {"CONNECTING", "OPEN"}
    THEN [sock EXCEPT !.rs = "CLOSING", !.closeSent = code]
    ELSE sock

\* the open handler's registrationMsg: {type: 'register', token: currentToken}
RegistrationMsg == [type |-> "register", token |-> currentToken]

\* WebSocket.send of the ws library: a frame is written only when OPEN; the
\* socket record counts the registration frames written to it (up to two)
\* and keeps the token of the last one
LibSendRegister(socks, s, msg) ==
  IF s # 0 /\ socks[s].rs = "OPEN"
    THEN [socks EXCEPT ![s].reg = IF @ < 2 THEN @ + 1 ELSE @,
                       ![s].token = msg.token]
    ELSE socks

\* the close codes the library can report for socket s
PossibleCloseCodes(s) ==
  CASE sockets[s].rs = "CONNECTING" -> {ABNORMAL}
    [] sockets[s].rs = "OPEN" -> {NORMAL_CLOSURE, ABNORMAL, AUTH_REJECTED}
    [] sockets[s].rs = "CLOSING" ->
         IF sockets[s].opened /\ sockets[s].closeSent # 0
           THEN {sockets[s].closeSent, ABNORMAL}
           ELSE {ABNORMAL}
    [] OTHER -> {}

ClosedSocket ==
  [rs |-> "CLOSED", opened |-> FALSE, closeSent |-> 0, reg |-> 0,
   token |-> NoToken]

\* ws library: a socket emits 'message' from the end of its handshake until
\* its 'close' event, also after close() was called on it
Receiving(s) ==
  \/ sockets[s].rs = "OPEN"
  \/ sockets[s].rs = "CLOSING" /\ sockets[s].opened

(* ============================ overlay-state ============================ *)

\* `overlayStates.get(tabId) || { type: null, visible: false }`
DefaultOverlayState == [type |-> "null", visible |-> FALSE, message |-> "none"]

\* updateOverlayState(tabId, state): `{ ...current, ...state }` is stored
UpdateOverlayState(os, tabId, patch) ==
  LET current == IF tabId \in DOMAIN os THEN os[tabId] ELSE DefaultOverlayState
      updated == [k \in DOMAIN current |->
                    IF k \in DOMAIN patch THEN patch[k] ELSE current[k]]
  IN  MapSet(os, tabId, updated)

\* TabsManager.showOverlay(tabId) and hideOverlay(tabId): they put the
\* overlay view of the tab on the window or take it off, return normally
\* and leave the overlay-state map to updateOverlayState
ShowOverlay(os, tabId) == os
HideOverlay(os, tabId) == os

\* `tabsToClean.forEach(tabId => tabsManager.hideOverlay(tabId))`
RECURSIVE HideOverlays(_, _)
HideOverlays(os, tabIds) ==
  IF tabIds = {} THEN os
  ELSE LET t == MinOf(tabIds) IN HideOverlays(HideOverlay(os, t), tabIds \ {t})

(* ================================ ipc ================================== *)

\* notifyAnimationStateChange(states): `currentTabStates = new Map(states)`
NotifyAnimationStateChange(states) == [t \in DOMAIN states |-> states[t]]

(* ======================== websocket-client ============================= *)

\* handleAnimationMessage: the actions that reach the notification at the
\* end of the handler (any other action returns before it)
AnimationNotifiesOnlyInProgress(action) == action = "in_progress"
AnimationNotifies(action) ==
  action \in {"in_progress", "update", "success", "failed"}

\* handleAnimationMessage: tabStates after the message
AnimationStore(states, action, tab_id) ==
  IF action \in {"in_progress", "success", "failed"}
    THEN MapSet(states, tab_id, action)
    ELSE states

\* handleAnimationMessage: the object passed to updateOverlayState
AnimationPatch(action, message) ==
  CASE action = "in_progress" ->
         [type |-> "purple_glow", visible |-> TRUE, message |-> message]
    [] action = "update" -> [message |-> message]
    [] OTHER -> [type |-> "null", visible |-> FALSE, message |-> "none"]

\* handleAnimationMessage: overlayStates after the message
AnimationOverlays(os, action, tab_id, message) ==
  CASE action = "in_progress" ->
         ShowOverlay(UpdateOverlayState(os, tab_id,
                                        AnimationPatch(action, message)),
                     tab_id)
    [] action = "update" ->
         UpdateOverlayState(os, tab_id, AnimationPatch(action, message))
    [] action \in {"success", "failed"} ->
         HideOverlay(UpdateOverlayState(os, tab_id,
                                        AnimationPatch(action, message)),
                     tab_id)
    [] OTHER -> os

\* handleAnimationMessage: the map the observer holds after the message
AnimationSnapshot(snapshot, states, action, tab_id) ==
  IF AnimationNotifies(action)
    THEN NotifyAnimationStateChange(AnimationStore(states, action, tab_id))
    ELSE snapshot

\* connectWebSocket(token): guard of the early return
AlreadyConnected == ws # 0 /\ sockets[ws].rs = "OPEN"

\* connectWebSocket(token)
ConnectWebSocket(token) ==
  IF AlreadyConnected
    THEN UNCHANGED <<ws, currentToken, sockets>>
    ELSE /\ currentToken' = token
         /\ IF urlValid
              THEN /\ CanCreateSocket
                   /\ sockets' = [sockets EXCEPT ![NewSocketId] = FreshSocket]
                   /\ ws' = NewSocketId
              ELSE UNCHANGED <<ws, sockets>>

\* disconnectWebSocket()
DisconnectWebSocket ==
  /\ reconnectTimeout' = 0
  /\ timers' = timers \ {reconnectTimeout}
  /\ IF ws = 0
       THEN UNCHANGED <<ws, currentToken, storeVars, sockets>>
       ELSE /\ overlayStates' = HideOverlays(overlayStates, DOMAIN tabStates)
            /\ tabStates' = EmptyMap
            /\ currentTabStates' = NotifyAnimationStateChange(EmptyMap)
            /\ currentToken' = NoToken
            /\ sockets' = [sockets EXCEPT ![ws] = LibClose(@, NORMAL_CLOSURE)]
            /\ ws' = 0

\* handleAuthToken(token) of auth.ts
HandleAuthToken(token) ==
  /\ windowOpen
  /\ authToken' = token
  /\ IF token = NoToken
       THEN /\ DisconnectWebSocket
            /\ requested' = "disconnect"
            /\ lastOp' = Op("disconnect", 0, ws # 0)
            /\ UNCHANGED rejected
       ELSE /\ ConnectWebSocket(token)
            /\ requested' = "connect"
            /\ rejected' = FALSE
            /\ lastOp' = Op("connect", 0, ws # 0 /\ Live(ws))
            /\ UNCHANGED <<reconnectTimeout, timers, storeVars>>

\* ws.on('open')
ClientOnOpen(s) ==
  /\ sockets[s].rs = "CONNECTING"
  /\ sockets' = LibSendRegister(
                  [sockets EXCEPT ![s].rs = "OPEN", ![s].opened = TRUE], ws,
                  RegistrationMsg)
  /\ lastOp' = Op("open", s, s = ws)
  /\ UNCHANGED <<ws, currentToken, reconnectTimeout, timers, storeVars,
                 authToken, requested, rejected>>

\* ws.on('error') on an established connection: logged only; the library
\* has started closing the socket and reports the close later
ClientOnError(s) ==
  /\ sockets[s].rs = "OPEN"
  /\ sockets' = [sockets EXCEPT ![s].rs = "CLOSING"]
  /\ lastOp' = Op("error", s, s = ws)
  /\ UNCHANGED <<ws, currentToken, reconnectTimeout, timers, storeVars,
                 authToken, requested, rejected>>

\* close handler: whether a reconnect is scheduled
ClientShouldReconnectInverted(code) ==
  currentToken # NoToken /\ code = NORMAL_CLOSURE
ClientShouldReconnect(code) == currentToken # NoToken /\ code # NORMAL_CLOSURE

\* ws.on('close')
ClientOnClose(s, code) ==
  /\ code \in PossibleCloseCodes(s)
  /\ sockets' = [sockets EXCEPT ![s] = ClosedSocket]
  /\ IF ClientShouldReconnect(code)
       THEN /\ CanCreateTimer
            /\ timers' = timers \cup {NewTimerId}
            /\ reconnectTimeout' = NewTimerId
       ELSE UNCHANGED <<timers, reconnectTimeout>>
  /\ rejected' = (rejected \/ code = AUTH_REJECTED)
  /\ lastOp' = Op("close", code, currentToken # NoToken)
  /\ UNCHANGED <<ws, currentToken, storeVars, authToken, requested>>

\* the setTimeout callback armed by the close handler
ClientReconnectTimer(h) ==
  /\ h \in timers
  /\ timers' = timers \ {h}
  /\ IF currentToken # NoToken
       THEN ConnectWebSocket(currentToken)
       ELSE UNCHANGED <<ws, currentToken, sockets>>
  /\ lastOp' = Op("timer", h, currentToken # NoToken /\ ~AlreadyConnected)
  /\ UNCHANGED <<reconnectTimeout, storeVars, authToken, requested, rejected>>

ClientNext ==
  \/ \E token \in Tokens \cup {NoToken} : HandleAuthToken(token)
  \/ \E s \in SocketIds : ClientOnOpen(s)
  \/ \E s \in SocketIds : ClientOnError(s)
  \/ \E s \in SocketIds, code \in CloseCodes : ClientOnClose(s, code)
  \/ \E h \in TimerIds : ClientReconnectTimer(h)

(* ============== application: tabs, status store and client ============= *)

AnimationActions == {"in_progress", "update", "success", "failed"}

\* handleServerMessage -> handleAnimationMessage, for a frame received on s
\* that carries no message text
HandleAnimationMessage(s, action, tab_id) ==
  /\ Receiving(s)
  /\ tabStates' = AnimationStore(tabStates, action, tab_id)
  /\ overlayStates' = AnimationOverlays(overlayStates, action, tab_id, "none")
  /\ currentTabStates' =
       AnimationSnapshot(currentTabStates, tabStates, action, tab_id)
  /\ lastOp' = OpX("animation", tab_id, action \in AnimationActions,
                   AnimationNotifies(action))
  /\ UNCHANGED <<tabVars, clientVars, envVars, requested, rejected>>

\* handleServerMessage -> executeTabCommand(id, 'closeTab', {tab_id}), for a
\* frame received on s
CommandCloseTab(s, tab_id) ==
  /\ Receiving(s)
  /\ LET r == CloseTabResult(tabs, currentTabId, attached, tab_id) IN
       /\ tabs' = r.tabs
       /\ currentTabId' = r.cur
       /\ attached' = r.att
       /\ lastOp' = OpX("closeTab", tab_id, HasTab(tabs, tab_id),
                        currentTabId = tab_id)
  /\ UNCHANGED <<nextId, windowOpen, mgr, issued, clientVars, envVars,
                 storeVars, requested, rejected>>

AppTabIds == 0 .. (MaxAppTabIds - 1)

AppScope ==
  /\ nextId <= MaxAppTabIds
  /\ Cardinality({s \in SocketIds : sockets[s].rs \notin {"NONE", "CLOSED"}})
       <= MaxAppSockets
  /\ Cardinality(timers) <= MaxAppTimers

AppTabsNext ==
  /\ \/ \E url \in Urls : CreateTab(url)
     \/ \E t \in AppTabIds : SwitchTo(t)
     \/ \E t \in AppTabIds : CloseTab(t)
  /\ UNCHANGED <<clientVars, envVars, storeVars, requested, rejected>>

NextApp ==
  /\ impl = "client"
  /\ \/ ClientNext /\ UNCHANGED tabVars
     \/ \E s \in SocketIds, a \in AnimationActions, t \in AppTabIds :
          HandleAnimationMessage(s, a, t)
     \/ \E s \in SocketIds, t \in AppTabIds : CommandCloseTab(s, t)
     \/ AppTabsNext
  /\ UNCHANGED <<bridgeVars, urlValid, impl, syncVars, cdpVars, dispatchVars>>
  /\ AppScope'

SpecApp == Init /\ [][NextApp]_vars

(* ------------------------- status store claims ------------------------- *)

\* C4: right after closeTab(x) closed a tab, from the UI or from a wire
\* command, the status store has no entry for x.
C4_ClosedTabHasNoStatus ==
  (lastOp.op = "closeTab" /\ lastOp.pre) => lastOp.arg \notin DOMAIN tabStates

\* C11: right after an explicit disconnect (handleAuthToken(null) ->
\* disconnectWebSocket) the status store has no entry for any tab, whatever
\* the connection was doing when it was called.
C11_DisconnectClearsStatuses ==
  lastOp.op = "disconnect" => tabStates = EmptyMap

\* C33: whenever no connection is open (no socket is between its open and
\* its close event), the status store is empty: a close event with any code
\* clears the entries, not only an explicit disconnect.
C33_NoConnectionNoStatuses ==
  (\A s \in SocketIds : ~Receiving(s)) => tabStates = EmptyMap

\* C38: every key of the status store is the id of a tab of the registry:
\* an animation message naming a tab that does not exist creates no entry,
\* and no entry outlives its tab.
C38_StatusKeysAreTabs ==
  DOMAIN tabStates \subseteq Ids(tabs)

(* ==================== websocket-client: command dispatch =============== *)

CmdIds == {"a1", "a2"}
WireTabIds == 0 .. (MaxWireTabIds - 1)
FocusValues == {"none", "true", "false"}
IgnoredTypes == {"registered", "pong", "error"}

\* frames the server may send: commands with and without id, params and
\* required parameters, and typed frames that also carry an action
NewTabFrames ==
  {Frame("none", "a1", "newTab", TRUE, FALSE, 0, TRUE, f, FALSE) :
     f \in FocusValues}
TabIdFrames ==
  {Frame("none", "a1", a, TRUE, TRUE, t, FALSE, "none", FALSE) :
     a \in {"switchTab", "closeTab"}, t \in WireTabIds}
CdpFrames ==
  {Frame("none", id, "cdp", TRUE, TRUE, t, FALSE, "none", TRUE) :
     id \in CmdIds, t \in WireTabIds}
MissingParameterFrames ==
  {Frame("none", "a1", "newTab", TRUE, FALSE, 0, FALSE, "none", FALSE),
   Frame("none", "a1", "switchTab", TRUE, FALSE, 0, FALSE, "none", FALSE),
   Frame("none", "a1", "closeTab", TRUE, FALSE, 0, FALSE, "none", FALSE),
   Frame("none", "a1", "cdp", TRUE, FALSE, 0, FALSE, "none", TRUE),
   Frame("none", "a1", "cdp", TRUE, TRUE, 0, FALSE, "none", FALSE)}
NoParamsFrames ==
  {Frame("none", "a1", a, FALSE, FALSE, 0, FALSE, "none", FALSE) :
     a \in {"getAllTabs", "cdp", "bogus", "none"}}
NoIdFrames ==
  {Frame("none", "none", "getAllTabs", FALSE, FALSE, 0, FALSE, "none", FALSE),
   Frame("none", "none", "switchTab", TRUE, TRUE, 0, FALSE, "none", FALSE),
   Frame("none", "none", "bogus", FALSE, FALSE, 0, FALSE, "none", FALSE)}
IgnoredFrames ==
  {Frame(ty, "a1", "closeTab", TRUE, TRUE, 0, FALSE, "none", FALSE) :
     ty \in IgnoredTypes}
AnimationFrames ==
  {Frame("animation", "a1", a, FALSE, TRUE, 0, FALSE, "none", FALSE) :
     a \in {"in_progress", "update", "closeTab"}}
Frames ==
  NewTabFrames \cup TabIdFrames \cup CdpFrames \cup MissingParameterFrames
    \cup NoParamsFrames \cup NoIdFrames \cup IgnoredFrames
    \cup AnimationFrames

\* handleServerMessage: where a frame goes
RouteByAction(f) ==
  CASE f.type \in IgnoredTypes -> "ignore"
    [] f.action \in {"newTab", "switchTab", "closeTab", "getAllTabs", "cdp"}
         -> "command"
    [] f.type = "animation" -> "animation"
    [] f.action = "none" -> "drop"
    [] OTHER -> "command"
Route(f) ==
  CASE f.type \in IgnoredTypes -> "ignore"
    [] f.type = "animation" -> "animation"
    [] f.action = "none" -> "drop"
    [] OTHER -> "command"

\* the params object as the command handlers see it: an animation frame
\* carries tab_id at the top level, not in params
ParamTabId(f) == f.type = "none" /\ f.hasParams /\ f.hasTabId
ParamUrl(f) == f.type = "none" /\ f.hasParams /\ f.hasUrl
ParamMethod(f) == f.type = "none" /\ f.hasParams /\ f.hasMethod
ParamsObject(f) == f.type = "none" /\ f.hasParams

\* response frames: {id, result} and {id, error}; param is the parameter an
\* error message names and named the tab ids its text contains
ResultAnonymous(id, text, named) ==
  [id |-> "none", kind |-> "result", text |-> text, param |-> "none",
   named |-> named]
Result(id, text, named) ==
  [id |-> id, kind |-> "result", text |-> text, param |-> "none",
   named |-> named]
Error(id, text, param, named) ==
  [id |-> id, kind |-> "error", text |-> text, param |-> param,
   named |-> named]

\* sendResult / sendError: the frame is written when ws is open
ConnectionOpen == ws # 0 /\ sockets[ws].rs = "OPEN"
Send(resp) == IF ConnectionOpen THEN <<resp>> ELSE <<>>

\* `if (params.focus !== false)`
AutoFocusOnlyTrue(focus) == focus = "true"
AutoFocus(focus) == focus # "false"

\* the state the handlers work on; sock is the socket whose message
\* handler is running (0 outside a message handler)
DispatchState ==
  [tabs |-> tabs, cur |-> currentTabId, next |-> nextId, att |-> attached,
   issued |-> issued, states |-> tabStates, dbg |-> dbg,
   pending |-> pending, sent |-> <<>>, sock |-> 0,
   snapshot |-> currentTabStates, overlays |-> overlayStates]

\* handleAnimationMessage
AnimationResult(st, f) ==
  IF f.hasTabId /\ f.action # "none"
    THEN [st EXCEPT
            !.states = AnimationStore(st.states, f.action, f.tab_id),
            !.overlays = AnimationOverlays(st.overlays, f.action, f.tab_id,
                                           "m1"),
            !.snapshot = AnimationSnapshot(st.snapshot, st.states, f.action,
                                           f.tab_id)]
    ELSE st

\* executeTabCommand
ExecuteTabCommand(st, f) ==
  CASE f.action = "newTab" ->
         IF ~ParamUrl(f)
           THEN [st EXCEPT !.sent = Send(Error(f.id, "missing", "url", {}))]
           ELSE [st EXCEPT
                   !.tabs = Append(st.tabs, [id |-> st.next, url |-> "u1"]),
                   !.next = AllocId(st.next),
                   !.att = CreateTabViews(st.att, st.next),
                   !.issued = Append(st.issued, [mgr |-> mgr, id |-> st.next]),
                   !.pending = st.pending \cup
                                 {[kind |-> "newTab", id |-> f.id,
                                   tab |-> st.next, focus |-> f.focus,
                                   method |-> "none", args |-> "none",
                                   sock |-> st.sock]}]
    [] f.action = "switchTab" ->
         IF ~ParamTabId(f)
           THEN [st EXCEPT !.sent = Send(Error(f.id, "missing", "tab_id", {}))]
           ELSE [st EXCEPT
                   !.cur = SwitchToCurrent(st.tabs, st.cur, f.tab_id),
                   !.att = SwitchToViews(st.tabs, st.att, f.tab_id),
                   !.sent = Send(Result(f.id, "empty", {}))]
    [] f.action = "closeTab" ->
         IF ~ParamTabId(f)
           THEN [st EXCEPT !.sent = Send(Error(f.id, "missing", "tab_id", {}))]
           ELSE LET r == CloseTabResult(st.tabs, st.cur, st.att, f.tab_id) IN
                [st EXCEPT
                   !.tabs = r.tabs, !.cur = r.cur, !.att = r.att,
                   !.dbg = st.dbg \ {f.tab_id},
                   !.sent = Send(Result(f.id, "empty", {}))]
    [] OTHER -> [st EXCEPT !.sent = Send(Result(f.id, "tabs", {}))]

\* executeCdpCommand: `args || {}`, the second argument of sendCommand
ForwardArgsEmpty(args) == "{}"
ForwardArgs(args) == IF args = "absent" THEN "{}" ELSE args

\* executeCdpCommand: `error instanceof Error ? error.message : 'Unknown error'`
ErrorMessage(e) == IF e.isError THEN e.value ELSE "Unknown error"

\* executeCdpCommand: `if (!webContents.debugger.isAttached())` guards the
\* call of debugger.attach, given the tabs `d` that have a session
NeedsAttachAlways(d, t) == TRUE
NeedsAttach(d, t) == t \notin d

\* debugger.attach throws when the target already has a session
AttachThrows(d, t) == NeedsAttach(d, t) /\ t \in d

\* executeCdpCommand: destructuring an absent params object throws, and the
\* rejection of the async function is handled nowhere
ExecuteCdpCommand(st, f) ==
  IF ~ParamsObject(f) THEN st
  ELSE IF ~ParamTabId(f)
    THEN [st EXCEPT !.sent = Send(Error(f.id, "missing", "tab_id", {}))]
  ELSE IF ~ParamMethod(f)
    THEN [st EXCEPT !.sent = Send(Error(f.id, "missing", "method", {}))]
  ELSE IF ~HasTab(st.tabs, f.tab_id)
    THEN [st EXCEPT !.sent = Send(Error(f.id, "not found", "none", {f.tab_id}))]
  ELSE IF AttachThrows(st.dbg, f.tab_id)
    THEN [st EXCEPT !.sent = Send(Error(f.id, "engine", "none", {}))]
  ELSE [st EXCEPT
          !.dbg = IF NeedsAttach(st.dbg, f.tab_id)
                    THEN st.dbg \cup {f.tab_id}
                    ELSE st.dbg,
          !.pending = st.pending \cup
                        {[kind |-> "cdp", id |-> f.id, tab |-> f.tab_id,
                          focus |-> "none", method |-> f.method,
                          args |-> ForwardArgs(f.args), sock |-> st.sock]}]

\* whether the handler of the frame reaches an await: `await createTab` in
\* executeTabCommand, `await sendCommand` in executeCdpCommand
Suspends(st, f) ==
  /\ Route(f) = "command"
  /\ \/ f.action = "newTab" /\ ParamUrl(f)
     \/ /\ f.action = "cdp"
        /\ ParamTabId(f)
        /\ ParamMethod(f)
        /\ HasTab(st.tabs, f.tab_id)
        /\ ~AttachThrows(st.dbg, f.tab_id)

\* handleServerMessage
ServerMessageResult(st, f) ==
  CASE Route(f) = "ignore" -> st
    [] Route(f) = "animation" -> AnimationResult(st, f)
    [] Route(f) = "drop" -> st
    [] OTHER ->
         IF f.action \in {"newTab", "switchTab", "closeTab", "getAllTabs"}
           THEN ExecuteTabCommand(st, f)
         ELSE IF f.action = "cdp" THEN ExecuteCdpCommand(st, f)
         ELSE [st EXCEPT !.sent = Send(Error(f.id, "unknown action", "none", {}))]

\* the continuation of a handler whose await has settled: executeTabCommand
\* after `await createTab`, executeCdpCommand after `await sendCommand`
\* (out: how the awaited call settled)
ContinuationResult(st, p, out) ==
  IF p.kind = "newTab"
    THEN [st EXCEPT
            !.cur = IF AutoFocus(p.focus)
                      THEN SwitchToCurrent(st.tabs, st.cur, p.tab)
                      ELSE st.cur,
            !.att = IF AutoFocus(p.focus)
                      THEN SwitchToViews(st.tabs, st.att, p.tab)
                      ELSE st.att,
            !.sent = Send(Result(p.id, "tabId", {p.tab}))]
    ELSE [st EXCEPT
            !.sent = IF out.ok THEN Send(Result(p.id, out.value, {}))
                     ELSE Send(Error(p.id, ErrorMessage(out), "none", {}))]

\* the connection is established with token t1: the state after
\* handleAuthToken('t1') and the socket's open event
InitConnected ==
  /\ tabs = StartupTabList
  /\ currentTabId = SwitchToCurrent(StartupTabList, -1, 0)
  /\ nextId = StartupTabs
  /\ attached = SwitchToViews(StartupTabList, {}, 0)
  /\ windowOpen = TRUE
  /\ mgr = 1
  /\ ws = MinOf(SocketIds)
  /\ currentToken = "t1"
  /\ reconnectTimeout = 0
  /\ tabStates = EmptyMap
  /\ currentTabStates = EmptyMap
  /\ overlayStates = EmptyMap
  /\ authToken = "t1"
  /\ bridgeWs = 0
  /\ state = "disconnected"
  /\ reconnectTimer = 0
  /\ reconnectAttempts = 0
  /\ reconnectDelay = 0
  /\ cdpWs = 0
  /\ cdpState = "disconnected"
  /\ debuggerAttached = FALSE
  /\ sockets = [s \in SocketIds |->
                  IF s = MinOf(SocketIds)
                    THEN [FreshSocket EXCEPT !.rs = "OPEN", !.opened = TRUE,
                                             !.reg = 1, !.token = "t1"]
                    ELSE NoSocket]
  /\ timers = {}
  /\ urlValid = TRUE
  /\ impl = "client"
  /\ requested = "connect"
  /\ rejected = FALSE
  /\ issued = StartupIssued(1)
  /\ lastOp = Op("open", MinOf(SocketIds), TRUE)
  /\ dbg = {}
  /\ pending = {}
  /\ sentNow = <<>>
  /\ lastFrame = NoFrame
  /\ lastOutcome = NoOutcome
  /\ SyncIdle

ApplyDispatch(r) ==
  /\ tabs' = r.tabs
  /\ currentTabId' = r.cur
  /\ nextId' = r.next
  /\ attached' = r.att
  /\ issued' = r.issued
  /\ tabStates' = r.states
  /\ currentTabStates' = r.snapshot
  /\ overlayStates' = r.overlays
  /\ dbg' = r.dbg
  /\ pending' = r.pending
  /\ sentNow' = r.sent

\* ws.on('message') -> handleServerMessage(message), for a frame received
\* on socket s
HandleServerMessage(s, f, maxIds, maxPending) ==
  /\ Receiving(s)
  /\ LET r == ServerMessageResult([DispatchState EXCEPT !.sock = s], f) IN
       /\ r.next <= maxIds
       /\ Cardinality(r.pending) <= maxPending
       \* a command is not repeated while it is still in flight
       /\ Suspends(DispatchState, f) => r.pending # pending
       /\ ApplyDispatch(r)
  /\ lastFrame' = f
  /\ lastOutcome' = NoOutcome
  /\ lastOp' = Op("frame", s, s = ws)
  /\ UNCHANGED <<windowOpen, mgr, clientVars, bridgeVars, envVars, urlValid,
                 impl, syncVars, cdpVars, requested, rejected>>

\* a suspended handler resumes
Continue(p, out) ==
  /\ p \in pending
  \* createTab catches a failed load and resolves with the id all the same
  /\ p.kind = "newTab" => out = Resolved("tabId")
  /\ p.kind = "cdp" => out # Resolved("tabId")
  /\ LET st == [DispatchState EXCEPT !.pending = pending \ {p}] IN
       ApplyDispatch(ContinuationResult(st, p, out))
  /\ lastFrame' = NoFrame
  /\ lastOutcome' = out
  /\ lastOp' = OpX(p.kind, p.tab, HasTab(tabs, p.tab), p.focus # "false")
  /\ UNCHANGED <<windowOpen, mgr, clientVars, bridgeVars, envVars, urlValid,
                 impl, syncVars, cdpVars, requested, rejected>>

\* logout while commands are being served
DispatchLogout ==
  /\ HandleAuthToken(NoToken)
  /\ sentNow' = <<>>
  /\ lastFrame' = NoFrame
  /\ lastOutcome' = NoOutcome
  /\ UNCHANGED <<tabVars, bridgeVars, urlValid, impl, syncVars, cdpVars, dbg,
                 pending>>

\* what the awaited calls of the command scenarios settle with
DispatchOutcomes == {Resolved("tabId"), Resolved("v1"), Rejected("e1")}

NextDispatch ==
  \/ \E s \in SocketIds, f \in Frames :
       HandleServerMessage(s, f, MaxWireTabIds, MaxPending)
  \/ \E p \in pending, out \in DispatchOutcomes : Continue(p, out)
  \/ DispatchLogout

SpecDispatch == InitConnected /\ [][NextDispatch]_vars

(* ------- commands served while the connection is lost and remade ------- *)

SessionFrames ==
  {Frame("none", id, "newTab", TRUE, FALSE, 0, TRUE, "false", FALSE) :
     id \in CmdIds}
    \cup {Frame("none", "a2", "cdp", TRUE, TRUE, 0, FALSE, "none", TRUE)}

\* a suspended handler holds no reference to the socket its command came
\* from; the record keeps it for as long as that socket exists (0 after its
\* close event, when the connection is gone)
OriginAfter(p, socks) ==
  IF p.sock # 0 /\ socks[p.sock].rs \in {"NONE", "CLOSED"} THEN 0 ELSE p.sock

\* login, logout, open, error, close and reconnect while commands are served
SessionClientStep ==
  /\ ClientNext
  /\ pending' = {[p EXCEPT !.sock = OriginAfter(p, sockets')] : p \in pending}
  /\ sentNow' = <<>>
  /\ lastFrame' = NoFrame
  /\ lastOutcome' = NoOutcome
  /\ UNCHANGED <<tabVars, bridgeVars, urlValid, impl, syncVars, cdpVars, dbg>>

SessionScope ==
  /\ Cardinality({s \in SocketIds : sockets[s].rs \notin {"NONE", "CLOSED"}})
       <= MaxSessionSockets
  /\ Cardinality(timers) <= MaxSessionTimers

NextSession ==
  /\ \/ \E s \in SocketIds, f \in SessionFrames :
          HandleServerMessage(s, f, MaxSessionTabIds, MaxSessionPending)
     \/ \E p \in pending, out \in DispatchOutcomes : Continue(p, out)
     \/ SessionClientStep
  /\ SessionScope'

SpecSession == InitConnected /\ [][NextSession]_vars

(* ------- the status store while tabs close and the connection goes ------ *)

StatusTabIds == 0 .. (MaxStatusTabIds - 1)
\* the four actions handleAnimationMessage knows and one it does not
StatusActions == AnimationActions \cup {"bogus"}

StatusScope ==
  /\ Cardinality({s \in SocketIds : sockets[s].rs \notin {"NONE", "CLOSED"}})
       <= MaxStatusSockets
  /\ Cardinality(timers) <= MaxStatusTimers

NextStatus ==
  /\ \/ \E s \in SocketIds, a \in StatusActions, t \in StatusTabIds :
          HandleAnimationMessage(s, a, t)
     \/ \E s \in SocketIds, t \in StatusTabIds : CommandCloseTab(s, t)
     \/ ClientNext /\ UNCHANGED tabVars
  /\ UNCHANGED <<bridgeVars, urlValid, impl, syncVars, cdpVars, dispatchVars>>
  /\ StatusScope'

SpecStatus == InitConnected /\ [][NextStatus]_vars

\* getOverlayState(tabId): whether the entry of the tab is marked visible
OverlayVisible(tabId) ==
  tabId \in DOMAIN overlayStates /\ overlayStates[tabId].visible

\* C32: every mutation of the status store is followed, within the step of
\* the handler that made it, by a notification of the observer, and the map
\* the observer received last equals the contents of the store: after an
\* animation message (in_progress, update, success, failed) and after the
\* clear of an explicit disconnect.
C32_ObserverHoldsTheStore ==
  [][/\ currentTabStates' = tabStates'
     /\ (lastOp'.op = "animation" /\ lastOp'.pre) => lastOp'.aux]_vars

\* the store holds statuses of two tabs, the last message set the second
\* to failed, and the observer was handed exactly that map
C32_Witness ==
  /\ lastOp.op = "animation"
  /\ lastOp.pre
  /\ lastOp.aux
  /\ Cardinality(DOMAIN tabStates) = 2
  /\ tabStates[lastOp.arg] = "failed"
  /\ \E t \in DOMAIN tabStates : tabStates[t] = "in_progress"
  /\ currentTabStates = tabStates

\* C39: for every tab, the overlay-state entry is marked visible exactly
\* when the status of the tab is in_progress.
C39_VisibleIffInProgress ==
  \A t \in DOMAIN tabStates \cup DOMAIN overlayStates :
    OverlayVisible(t) <=> (t \in DOMAIN tabStates /\ tabStates[t] = "in_progress")

(* ------------- commands whose handlers complete out of order ----------- *)

AsyncCmdIds == {"a1", "a2"}
AsyncTabIds == 0 .. (MaxAsyncTabIds - 2)
Methods == {"m1", "m2"}
ArgValues == {"absent", "{}", "{x:1}"}

\* newTab commands, and cdp commands with different methods and args
AsyncFrames ==
  {Frame("none", id, "newTab", TRUE, FALSE, 0, TRUE, "false", FALSE) :
     id \in AsyncCmdIds}
    \cup {CdpCall(id, t, m, a) :
            id \in AsyncCmdIds, t \in AsyncTabIds, m \in Methods,
            a \in ArgValues}

\* what the awaited calls settle with: the id of the loaded tab, a value or
\* an error of the debugger
AsyncOutcomes ==
  {Resolved("tabId"), Resolved("v1"), Resolved("v2"), Rejected("e1"),
   Rejected("e2")}

NextAsync ==
  \/ \E s \in SocketIds, f \in AsyncFrames :
       HandleServerMessage(s, f, MaxAsyncTabIds, MaxAsyncPending)
  \/ \E p \in pending, out \in AsyncOutcomes : Continue(p, out)
  \/ DispatchLogout

SpecAsync == InitConnected /\ [][NextAsync]_vars

(* --------------------------- dispatch claims --------------------------- *)

\* the step handled an inbound frame
FrameStep == lastOp'.op = "frame"
\* the step resumed a suspended handler
ContinueStep == lastOp'.op \in {"newTab", "cdp"}
\* a command frame: no type, and an action
IsCommand(f) == f.type = "none" /\ f.action # "none"

\* C13: while the connection is open, the handling of a command frame with
\* an id and an action either writes exactly one response carrying that id
\* or suspends exactly one handler that holds that id, and a handler that
\* resumes writes exactly one response carrying the id of its command.
C13_EveryCommandAnsweredOnce ==
  [][/\ (FrameStep /\ IsCommand(lastFrame') /\ lastFrame'.id # "none"
           /\ ConnectionOpen) =>
          \/ /\ pending' = pending
             /\ Len(sentNow') = 1
             /\ sentNow'[1].id = lastFrame'.id
          \/ /\ sentNow' = <<>>
             /\ \E p \in pending' \ pending :
                  p.id = lastFrame'.id /\ pending' = pending \cup {p}
     /\ (ContinueStep /\ ConnectionOpen) =>
          \E p \in pending \ pending' :
            /\ pending' = pending \ {p}
            /\ Len(sentNow') = 1
            /\ sentNow'[1].id = p.id]_vars

\* C14: a switchTab or closeTab command with an id, naming a tab id that is
\* not in the registry, is answered by one error response that carries the
\* command's id and names the tab id, and leaves the registry as it was.
C14_UnknownTabIsAnError ==
  [][(/\ FrameStep
      /\ IsCommand(lastFrame')
      /\ lastFrame'.action \in {"switchTab", "closeTab"}
      /\ lastFrame'.id # "none"
      /\ lastFrame'.hasParams
      /\ lastFrame'.hasTabId
      /\ ~HasTab(tabs, lastFrame'.tab_id)
      /\ ConnectionOpen) =>
       /\ Len(sentNow') = 1
       /\ sentNow'[1].kind = "error"
       /\ sentNow'[1].id = lastFrame'.id
       /\ lastFrame'.tab_id \in sentNow'[1].named
       /\ UNCHANGED <<tabs, currentTabId, attached>>]_vars

\* the required parameters a command frame lacks
MissingParameters(f) ==
  CASE f.action = "newTab" ->
         IF f.hasParams /\ f.hasUrl THEN {} ELSE {"url"}
    [] f.action \in {"switchTab", "closeTab"} ->
         IF f.hasParams /\ f.hasTabId THEN {} ELSE {"tab_id"}
    [] f.action = "cdp" ->
         (IF f.hasParams /\ f.hasTabId THEN {} ELSE {"tab_id"})
           \cup (IF f.hasParams /\ f.hasMethod THEN {} ELSE {"method"})
    [] OTHER -> {}

\* C15: a command with an id that lacks a required parameter is answered by
\* one error response that names a missing parameter; no handler is started
\* and tabs, visibility and debugger attachments stay as they were.
C15_MissingParameterIsAnError ==
  [][(/\ FrameStep
      /\ IsCommand(lastFrame')
      /\ lastFrame'.id # "none"
      /\ MissingParameters(lastFrame') # {}
      /\ ConnectionOpen) =>
       /\ Len(sentNow') = 1
       /\ sentNow'[1].kind = "error"
       /\ sentNow'[1].param \in MissingParameters(lastFrame')
       /\ UNCHANGED <<tabs, currentTabId, nextId, attached, dbg, pending>>]_vars

\* C16: the handling of a command frame that has no id writes no frame.
C16_NoIdNoResponse ==
  [][(FrameStep /\ lastFrame'.id = "none") => sentNow' = <<>>]_vars

\* C17: a registered or pong frame writes no frame and changes neither tab
\* nor status nor dispatcher state; an animation frame writes no frame and
\* changes only the status store, whatever action it carries; a step that
\* writes a response or changes tab or dispatcher state handled a frame
\* with an action and none of these types.
C17_FramesRoutedByKind ==
  [][FrameStep =>
       /\ lastFrame'.type \in {"registered", "pong"} =>
            /\ sentNow' = <<>>
            /\ UNCHANGED <<tabVars, tabStates, dbg, pending>>
       /\ lastFrame'.type = "animation" =>
            /\ sentNow' = <<>>
            /\ UNCHANGED <<tabVars, dbg, pending>>
       /\ (sentNow' # <<>> \/ <<tabVars, dbg, pending>>' # <<tabVars, dbg, pending>>)
            => /\ lastFrame'.action # "none"
               /\ lastFrame'.type \notin {"registered", "pong", "animation"}]_vars

\* an animation frame that carries an id and an action was handled on the
\* open connection: the status store has the entry and nothing was written
C17_Witness ==
  /\ lastOp.op = "frame"
  /\ lastFrame.type = "animation"
  /\ lastFrame.id # "none"
  /\ lastFrame.action = "in_progress"
  /\ lastFrame.tab_id \in DOMAIN tabStates
  /\ ConnectionOpen
  /\ sentNow = <<>>

\* C19 as stated: the newTab handler leaves the current tab and the visible
\* view alone when it creates the tab; when it resumes, with focus absent or
\* true the new tab is current and its view the only one attached, and with
\* focus false the current tab and the attached view are as they were.
C19_NewTabFocus ==
  [][/\ (FrameStep /\ IsCommand(lastFrame') /\ lastFrame'.action = "newTab") =>
          UNCHANGED <<currentTabId, attached>>
     /\ \A p \in pending \ pending' :
          p.kind = "newTab" =>
            IF p.focus # "false"
              THEN currentTabId' = p.tab /\ attached' = {p.tab}
              ELSE UNCHANGED <<currentTabId, attached>>]_vars

\* C19 amended: the new tab becomes current and the only visible tab when
\* its load has settled, if focus is absent or true and the tab is still in
\* the registry then; in every other case the handler leaves the current
\* tab and the visible view as they were.
C19_NewTabFocusWhenLoaded ==
  [][/\ (FrameStep /\ IsCommand(lastFrame') /\ lastFrame'.action = "newTab") =>
          UNCHANGED <<currentTabId, attached>>
     /\ \A p \in pending \ pending' :
          p.kind = "newTab" =>
            IF p.focus # "false" /\ HasTab(tabs, p.tab)
              THEN currentTabId' = p.tab /\ attached' = {p.tab}
              ELSE UNCHANGED <<currentTabId, attached>>]_vars

\* a newTab command without a focus parameter has completed: the new tab is
\* current and its view replaced the one that was visible
C19_Witness ==
  /\ lastOp.op = "newTab"
  /\ lastOp.pre
  /\ lastOp.aux
  /\ currentTabId = lastOp.arg
  /\ attached = {lastOp.arg}
  /\ Len(tabs) >= 2
  /\ Len(sentNow) = 1

\* C20: for every tab at most one cdp command is awaiting its result.
C20_OneDebugCommandInFlightPerTab ==
  \A t \in WireTabIds :
    Cardinality({p \in pending : p.kind = "cdp" /\ p.tab = t}) <= 1

\* a cdp command that names a tab of the registry and a method
CdpStep ==
  /\ FrameStep
  /\ Route(lastFrame') = "command"
  /\ lastFrame'.action = "cdp"
  /\ ParamTabId(lastFrame')
  /\ ParamMethod(lastFrame')
  /\ HasTab(tabs, lastFrame'.tab_id)

\* C27: a cdp command to tab t attaches a session to t exactly when t has
\* none: a tab without a session has one afterwards, a tab with a session
\* keeps it and the command goes on to the engine instead of failing on a
\* second attach; the sessions of the other tabs are left as they are,
\* whichever tab is current.
C27_AttachExactlyWhenDetached ==
  [][CdpStep =>
       LET t == lastFrame'.tab_id IN
         /\ dbg' = dbg \cup {t}
         /\ \E p \in pending' \ pending :
              p.kind = "cdp" /\ p.tab = t /\ p.id = lastFrame'.id
         /\ sentNow' = <<>>]_vars

\* a second cdp command reached a tab that has a session and is not the
\* current tab, while another tab has none
C27_Witness ==
  /\ lastOp.op = "frame"
  /\ lastFrame.action = "cdp"
  /\ lastFrame.tab_id \in dbg
  /\ lastFrame.tab_id # currentTabId
  /\ Cardinality({p \in pending : p.kind = "cdp" /\ p.tab = lastFrame.tab_id}) = 2
  /\ \E i \in 1 .. Len(tabs) : tabs[i].id \notin dbg

\* C28: after an explicit disconnect no tab has a debugging session
\* attached, whether it is the visible tab or not.
C28_DisconnectDetachesAll ==
  lastOp.op = "disconnect" => dbg = {}

\* the response a resumed cdp handler writes: the engine's value as the
\* result, or the message of the engine's error as the error
CdpReplyIsEngineOutcome ==
  (lastOp'.op = "cdp" /\ ConnectionOpen) =>
    \E p \in pending \ pending' :
      /\ Len(sentNow') = 1
      /\ sentNow'[1].id = p.id
      /\ sentNow'[1].kind = IF lastOutcome'.ok THEN "result" ELSE "error"
      /\ sentNow'[1].text = lastOutcome'.value
      /\ sentNow'[1].named = {}
      /\ sentNow'[1].param = "none"

\* C22 as stated: a cdp command hands the engine the method and the args
\* of the frame, unchanged, for the tab the frame names, and the response
\* carries the engine's value as its result, or the message of the engine's
\* error as its error, with nothing but the id added.
C22_CdpRoundTripUnchanged ==
  [][/\ CdpStep =>
          \E p \in pending' \ pending :
            /\ p.kind = "cdp"
            /\ p.tab = lastFrame'.tab_id
            /\ p.method = lastFrame'.method
            /\ p.args = lastFrame'.args
     /\ CdpReplyIsEngineOutcome]_vars

\* C22 amended: the method reaches the engine unchanged, and so do the
\* args when the frame carries them; a frame without args hands the engine
\* an empty object. The response is the engine's value or error message
\* under the command's id.
C22_CdpRoundTripDefaultArgs ==
  [][/\ CdpStep =>
          \E p \in pending' \ pending :
            /\ p.kind = "cdp"
            /\ p.tab = lastFrame'.tab_id
            /\ p.method = lastFrame'.method
            /\ p.args = IF lastFrame'.args = "absent"
                          THEN "{}"
                          ELSE lastFrame'.args
     /\ CdpReplyIsEngineOutcome]_vars

\* a cdp command with method m2 and args {x:1} for a tab other than the
\* current one was answered with the engine's value v2
C22_Witness ==
  /\ lastOp.op = "cdp"
  /\ lastOp.arg # currentTabId
  /\ lastOutcome = Resolved("v2")
  /\ Len(sentNow) = 1
  /\ sentNow[1].kind = "result"
  /\ sentNow[1].text = "v2"
  /\ \E p \in pending : p.kind = "cdp" /\ p.method = "m2" /\ p.args = "{x:1}"

\* C26: the synchronous part of a command's handler runs when its frame
\* arrives, before anything of a later command: it starts exactly that
\* handler and resumes none, and a newTab command gets a tab id above those
\* of all earlier newTab commands. A handler that resumes, in whatever
\* order, writes the response that carries the id of its own command (and,
\* for newTab, the tab id it allocated).
C26_StartedInOrderAnsweredById ==
  [][/\ FrameStep =>
          /\ pending \subseteq pending'
          /\ Cardinality(pending' \ pending) <= 1
     /\ (FrameStep /\ lastFrame'.action = "newTab" /\ ParamUrl(lastFrame')) =>
          \E p \in pending' \ pending :
            /\ p.kind = "newTab"
            /\ p.id = lastFrame'.id
            /\ \A i \in 1 .. Len(issued) : issued[i].id < p.tab
            /\ \A q \in pending : q.kind = "newTab" => q.tab < p.tab
     /\ (ContinueStep /\ ConnectionOpen) =>
          \E p \in pending \ pending' :
            /\ pending' = pending \ {p}
            /\ Len(sentNow') = 1
            /\ sentNow'[1].id = p.id
            /\ p.kind = "newTab" => sentNow'[1].named = {p.tab}]_vars

\* the second of two newTab commands was answered while the first, which
\* holds the lower tab id, is still loading
C26_Witness ==
  /\ lastOp.op = "newTab"
  /\ Len(sentNow) = 1
  /\ sentNow[1].named = {lastOp.arg}
  /\ \E q \in pending :
       /\ q.kind = "newTab"
       /\ q.tab < lastOp.arg
       /\ q.id # sentNow[1].id


\* C35: a response is written only to the connection its command was
\* received on: when that connection has closed, or another one has taken
\* its place, by the time the handler resumes, the late response is written
\* to no socket.
C35_ResponseOnOriginConnection ==
  [][(ContinueStep /\ sentNow' # <<>>) =>
       \A p \in pending \ pending' : p.sock # 0 /\ p.sock = ws]_vars

\* C37: the tabId of every newTab result identifies a tab of the registry
\* at the moment the response is written, also when a closeTab for that tab
\* was processed while the load was in flight; in that case the pending
\* auto-focus leaves the current tab as it was.
C37_NewTabResultNamesRegisteredTab ==
  [][lastOp'.op = "newTab" =>
       /\ \A i \in 1 .. Len(sentNow') :
            sentNow'[i].named \subseteq Ids(tabs')
       /\ ~lastOp'.pre => currentTabId' = currentTabId]_vars

(* ============================ AgentBridge ============================== *)

\* scheduleReconnect(): whether a timer is armed, given the attempts so far
\* and the pending timer
BridgeSchedules(attempts, timer) ==
  AutoReconnect /\ attempts < maxReconnectAttempts /\ timer = 0

\* scheduleReconnect(): the delay of attempt number n,
\* Math.min(reconnectInterval * Math.pow(2, n - 1), 60000)
ReconnectDelayUncapped(n) == reconnectInterval * 2 ^ (n - 1)
ReconnectDelay(n) ==
  IF reconnectInterval * 2 ^ (n - 1) < maxReconnectDelay
    THEN reconnectInterval * 2 ^ (n - 1)
    ELSE maxReconnectDelay

\* scheduleReconnect(), called with pending timers `ts` and
\* this.reconnectTimer = `rt`
ScheduleReconnect(ts, rt) ==
  IF BridgeSchedules(reconnectAttempts, rt)
    THEN /\ TimerIds \ ts # {}
         /\ reconnectAttempts' = reconnectAttempts + 1
         /\ reconnectDelay' = ReconnectDelay(reconnectAttempts + 1)
         /\ timers' = ts \cup {MinOf(TimerIds \ ts)}
         /\ reconnectTimer' = MinOf(TimerIds \ ts)
    ELSE /\ timers' = ts
         /\ reconnectTimer' = rt
         /\ UNCHANGED <<reconnectAttempts, reconnectDelay>>

\* connect(): guard of the early return
BridgeBusy == state \in {"connected", "connecting"}

\* connect(), called with pending timers `ts` and this.reconnectTimer = `rt`
Connect(ts, rt) ==
  IF BridgeBusy
    THEN /\ timers' = ts
         /\ reconnectTimer' = rt
         /\ UNCHANGED <<bridgeWs, state, sockets, reconnectAttempts,
                        reconnectDelay>>
    ELSE IF urlValid
      THEN /\ CanCreateSocket
           /\ state' = "connecting"
           /\ sockets' = [sockets EXCEPT ![NewSocketId] = FreshSocket]
           /\ bridgeWs' = NewSocketId
           /\ timers' = ts
           /\ reconnectTimer' = rt
           /\ UNCHANGED <<reconnectAttempts, reconnectDelay>>
      ELSE \* new WebSocket(url) throws
           /\ state' = "error"
           /\ ScheduleReconnect(ts, rt)
           /\ UNCHANGED <<bridgeWs, sockets>>

\* handleBridgeConnect -> AgentBridge.connect()
BridgeConnect ==
  /\ windowOpen
  /\ Connect(timers, reconnectTimer)
  /\ requested' = "connect"
  /\ rejected' = FALSE
  /\ lastOp' = Op("connect", 0, BridgeBusy)

\* handleBridgeDisconnect -> AgentBridge.disconnect()
BridgeDisconnect ==
  /\ windowOpen
  /\ reconnectTimer' = 0
  /\ timers' = timers \ {reconnectTimer}
  /\ IF bridgeWs # 0
       THEN sockets' = [sockets EXCEPT ![bridgeWs] = LibClose(@, NO_STATUS)]
       ELSE UNCHANGED sockets
  /\ bridgeWs' = 0
  /\ state' = "disconnected"
  /\ requested' = "disconnect"
  /\ lastOp' = Op("disconnect", 0, bridgeWs # 0)
  /\ UNCHANGED <<reconnectAttempts, reconnectDelay, rejected>>

\* onOpen()
BridgeOnOpen(s) ==
  /\ sockets[s].rs = "CONNECTING"
  /\ sockets' = [sockets EXCEPT ![s].rs = "OPEN", ![s].opened = TRUE]
  /\ state' = "connected"
  /\ reconnectAttempts' = 0
  /\ lastOp' = Op("open", s, s = bridgeWs)
  /\ UNCHANGED <<bridgeWs, reconnectTimer, reconnectDelay, timers, requested,
                 rejected>>

\* onError(error) on an established connection; the close event follows
BridgeOnError(s) ==
  /\ sockets[s].rs = "OPEN"
  /\ sockets' = [sockets EXCEPT ![s].rs = "CLOSING"]
  /\ state' = "error"
  /\ lastOp' = Op("error", s, s = bridgeWs)
  /\ UNCHANGED <<bridgeWs, reconnectTimer, reconnectAttempts, reconnectDelay,
                 timers, requested, rejected>>

\* onClose(code, reason); for a socket whose handshake did not complete the
\* library emits 'error' immediately before 'close', so onError runs first
BridgeOnClose(s, code) ==
  /\ code \in PossibleCloseCodes(s)
  /\ sockets' = [sockets EXCEPT ![s] = ClosedSocket]
  /\ bridgeWs' = 0
  /\ state' = "disconnected"
  /\ IF code = AUTH_REJECTED
       THEN UNCHANGED <<reconnectAttempts, reconnectDelay, timers,
                        reconnectTimer>>
       ELSE ScheduleReconnect(timers, reconnectTimer)
  /\ rejected' = (rejected \/ code = AUTH_REJECTED)
  /\ lastOp' = Op("close", code,
                  BridgeSchedules(reconnectAttempts, reconnectTimer))
  /\ UNCHANGED requested

\* the setTimeout callback armed by scheduleReconnect
BridgeReconnectTimer(h) ==
  /\ h \in timers
  /\ Connect(timers \ {h}, 0)
  /\ lastOp' = Op("timer", h, ~BridgeBusy)
  /\ UNCHANGED <<requested, rejected>>

BridgeNext ==
  \/ BridgeConnect
  \/ BridgeDisconnect
  \/ \E s \in SocketIds : BridgeOnOpen(s)
  \/ \E s \in SocketIds : BridgeOnError(s)
  \/ \E s \in SocketIds, code \in CloseCodes : BridgeOnClose(s, code)
  \/ \E h \in TimerIds : BridgeReconnectTimer(h)

(* ================= AgentBridge: tool calls (executor.ts) =============== *)

\* a decoded inbound message: whether JSON.parse accepted it, whether the
\* value is an object (and not null), and the fields of the ToolCall;
\* callId "none" stands for an absent callId
ToolCall(parsed, object, tool, callId, hasParams, hasTabId, tabId) ==
  [parsed |-> parsed, object |-> object, tool |-> tool, callId |-> callId,
   hasParams |-> hasParams, hasTabId |-> hasTabId, tabId |-> tabId]

Tools ==
  {"newTab", "closeTab", "switchTab", "getAllTabs", "getCurrentUrl",
   "getPageText", "autofill"}
CallIds == {"c1", "c2"}
ToolTabIds == 0 .. (MaxToolTabIds - 1)

\* messages the agent may send: text that is not JSON, the JSON value null,
\* calls of every tool with and without params, and a call of no known tool
ToolCalls ==
  {ToolCall(FALSE, FALSE, "none", "none", FALSE, FALSE, 0),
   ToolCall(TRUE, FALSE, "none", "none", FALSE, FALSE, 0)}
    \cup {ToolCall(TRUE, TRUE, t, c, TRUE, FALSE, 0) :
            t \in {"newTab", "getAllTabs", "bogus"},
            c \in CallIds \cup {"none"}}
    \cup {ToolCall(TRUE, TRUE, t, "c1", FALSE, FALSE, 0) : t \in Tools}
    \cup {ToolCall(TRUE, TRUE, t, "c1", TRUE, TRUE, i) :
            t \in Tools \ {"newTab", "getAllTabs"}, i \in ToolTabIds}
    \cup {ToolCall(TRUE, TRUE, t, "c2", TRUE, FALSE, 0) :
            t \in {"getCurrentUrl", "getPageText", "autofill"}}

\* a ToolResult; the data and error fields are left out
ToolResult(success, callId) == [success |-> success, callId |-> callId]

\* executeTool: the result of its catch block
CaughtResultNoCallId(callId) == ToolResult(FALSE, "none")
CaughtResult(callId) == ToolResult(FALSE, callId)

\* AgentBridge.send: the payload is written when the state is connected
BridgeSend(data) ==
  IF state = "connected" /\ bridgeWs # 0 THEN <<data>> ELSE <<>>

\* `params.tabId ?? tabsManager.getCurrentTabId()`
TargetTab(st, c) == IF c.hasTabId THEN c.tabId ELSE st.cur

\* a handler suspended in executeTool at `await createTab`,
\* `await executeInTab` or `await executeAutofill`
ToolAwait(c, tab) ==
  [kind |-> c.tool, id |-> c.callId, tab |-> tab, focus |-> "false",
   method |-> "none", args |-> "none"]

\* executeTool(call) up to its first await or its return
ExecuteTool(st, c) ==
  IF mgr = 0
    THEN [st EXCEPT !.sent = BridgeSend(ToolResult(FALSE, c.callId))]
  ELSE IF c.tool \notin Tools
    THEN [st EXCEPT !.sent = BridgeSend(ToolResult(FALSE, c.callId))]
  ELSE IF c.tool = "getAllTabs"
    THEN [st EXCEPT !.sent = BridgeSend(ToolResult(TRUE, c.callId))]
  ELSE IF ~c.hasParams
    \* reading a property of the absent params throws inside the try
    THEN [st EXCEPT !.sent = BridgeSend(CaughtResult(c.callId))]
  ELSE CASE c.tool = "newTab" ->
              [st EXCEPT
                 !.tabs = Append(st.tabs, [id |-> st.next, url |-> "u1"]),
                 !.next = AllocId(st.next),
                 !.att = CreateTabViews(st.att, st.next),
                 !.issued = Append(st.issued, [mgr |-> mgr, id |-> st.next]),
                 !.pending = st.pending \cup {ToolAwait(c, st.next)}]
         [] c.tool = "closeTab" ->
              LET r == CloseTabResult(st.tabs, st.cur, st.att, c.tabId) IN
              [st EXCEPT
                 !.tabs = r.tabs, !.cur = r.cur, !.att = r.att,
                 !.dbg = st.dbg \ {c.tabId},
                 !.sent = BridgeSend(ToolResult(TRUE, c.callId))]
         [] c.tool = "switchTab" ->
              [st EXCEPT
                 !.cur = SwitchToCurrent(st.tabs, st.cur, c.tabId),
                 !.att = SwitchToViews(st.tabs, st.att, c.tabId),
                 !.sent = BridgeSend(ToolResult(TRUE, c.callId))]
         [] c.tool = "getCurrentUrl" ->
              [st EXCEPT !.sent = BridgeSend(ToolResult(TRUE, c.callId))]
         [] c.tool = "getPageText" ->
              IF HasTab(st.tabs, TargetTab(st, c))
                THEN [st EXCEPT
                        !.pending = st.pending
                                      \cup {ToolAwait(c, TargetTab(st, c))}]
                \* executeInTab throws `Tab not found`
                ELSE [st EXCEPT !.sent = BridgeSend(CaughtResult(c.callId))]
         [] OTHER ->
              \* autofill: executeAutofill catches the error of executeInTab
              IF HasTab(st.tabs, TargetTab(st, c))
                THEN [st EXCEPT
                        !.pending = st.pending
                                      \cup {ToolAwait(c, TargetTab(st, c))}]
                ELSE [st EXCEPT !.sent = BridgeSend(ToolResult(FALSE, c.callId))]

\* onMessage(data) up to the first await of the tool, or its reply
OnMessageResult(st, c) ==
  IF ~c.parsed \/ ~c.object
    \* JSON.parse or the read of call.tool throws: the catch block of
    \* onMessage replies without a callId
    THEN [st EXCEPT !.sent = BridgeSend(ToolResult(FALSE, "none"))]
    ELSE ExecuteTool(st, c)

\* executeTool after its await settled, and the reply of onMessage
ToolContinuationResult(st, p, out) ==
  [st EXCEPT
     !.sent = CASE p.kind = "newTab" -> BridgeSend(ToolResult(TRUE, p.id))
                [] p.kind = "getPageText" ->
                     IF out.ok THEN BridgeSend(ToolResult(TRUE, p.id))
                     ELSE BridgeSend(CaughtResult(p.id))
                [] OTHER -> BridgeSend(ToolResult(out = Resolved("v1"), p.id))]

\* the bridge is connected; tool calls may arrive before the main window
\* and its TabsManager exist (mgr = 0)
InitTools ==
  /\ mgr \in {0, 1}
  /\ tabs = IF mgr = 0 THEN <<>> ELSE StartupTabList
  /\ currentTabId = IF mgr = 0 THEN -1
                    ELSE SwitchToCurrent(StartupTabList, -1, 0)
  /\ nextId = IF mgr = 0 THEN 0 ELSE StartupTabs
  /\ attached = IF mgr = 0 THEN {} ELSE SwitchToViews(StartupTabList, {}, 0)
  /\ windowOpen = (mgr # 0)
  /\ issued = IF mgr = 0 THEN <<>> ELSE StartupIssued(1)
  /\ ws = 0
  /\ currentToken = NoToken
  /\ reconnectTimeout = 0
  /\ tabStates = EmptyMap
  /\ currentTabStates = EmptyMap
  /\ overlayStates = EmptyMap
  /\ authToken = NoToken
  /\ bridgeWs = MinOf(SocketIds)
  /\ state = "connected"
  /\ reconnectTimer = 0
  /\ reconnectAttempts = 0
  /\ reconnectDelay = 0
  /\ cdpWs = 0
  /\ cdpState = "disconnected"
  /\ debuggerAttached = FALSE
  /\ sockets = [s \in SocketIds |->
                  IF s = MinOf(SocketIds)
                    THEN [FreshSocket EXCEPT !.rs = "OPEN", !.opened = TRUE]
                    ELSE NoSocket]
  /\ timers = {}
  /\ urlValid = TRUE
  /\ impl = "bridge"
  /\ requested = "connect"
  /\ rejected = FALSE
  /\ lastOp = Op("open", MinOf(SocketIds), TRUE)
  /\ dbg = {}
  /\ pending = {}
  /\ sentNow = <<>>
  /\ lastFrame = NoFrame
  /\ lastOutcome = NoOutcome
  /\ SyncIdle

\* ws.on('message') -> onMessage(data), for a message received on socket s
BridgeOnMessage(s, c) ==
  /\ Receiving(s)
  /\ LET r == OnMessageResult(DispatchState, c) IN
       /\ r.next <= MaxToolTabIds
       /\ Cardinality(r.pending) <= MaxToolPending
       \* a call is not repeated under its callId while it is in flight
       /\ \A p \in pending : p.kind = c.tool => p.id # c.callId
       /\ ApplyDispatch(r)
  /\ lastFrame' = c
  /\ lastOutcome' = NoOutcome
  /\ lastOp' = Op("message", s, s = bridgeWs)
  /\ UNCHANGED <<windowOpen, mgr, clientVars, bridgeVars, envVars, urlValid,
                 impl, syncVars, cdpVars, requested, rejected>>

\* the await of a suspended executeTool settles and onMessage replies
ToolContinue(p, out) ==
  /\ p \in pending
  /\ p.kind = "newTab" => out = Resolved("tabId")
  /\ p.kind # "newTab" => out # Resolved("tabId")
  /\ LET st == [DispatchState EXCEPT !.pending = pending \ {p}] IN
       ApplyDispatch(ToolContinuationResult(st, p, out))
  /\ lastFrame' = NoFrame
  /\ lastOutcome' = out
  /\ lastOp' = Op("toolDone", p.tab, HasTab(tabs, p.tab))
  /\ UNCHANGED <<windowOpen, mgr, clientVars, bridgeVars, envVars, urlValid,
                 impl, syncVars, cdpVars, requested, rejected>>

\* disconnect() while tool calls are being served
ToolsDisconnect ==
  /\ BridgeDisconnect
  /\ sentNow' = <<>>
  /\ lastFrame' = NoFrame
  /\ lastOutcome' = NoOutcome
  /\ UNCHANGED <<tabVars, clientVars, storeVars, urlValid, impl, syncVars,
                 cdpVars, dbg, pending>>

\* what the awaited calls of the tools settle with
ToolOutcomes ==
  {Resolved("tabId"), Resolved("v1"), Resolved("v0"), Rejected("e1")}

NextTools ==
  \/ \E s \in SocketIds, c \in ToolCalls : BridgeOnMessage(s, c)
  \/ \E p \in pending, out \in ToolOutcomes : ToolContinue(p, out)
  \/ ToolsDisconnect

SpecTools == InitTools /\ [][NextTools]_vars

\* the callId of the call a message holds; none when it holds no call
CallIdOf(c) == IF c.parsed /\ c.object THEN c.callId ELSE "none"

\* C23: while the bridge is connected every inbound message gets exactly
\* one reply, written when its handler returns or, for a tool that awaits
\* the engine, when the handler resumes; the reply is a ToolResult with
\* success true or false and its callId is the callId of the call, whether
\* the tool succeeded, is unknown, threw, found no TabsManager, or the
\* message could not be parsed.
C23_OneReplyPerCallWithItsCallId ==
  [][/\ (lastOp'.op = "message" /\ state = "connected" /\ bridgeWs # 0) =>
          \/ /\ pending' = pending
             /\ Len(sentNow') = 1
             /\ sentNow'[1].success \in BOOLEAN
             /\ sentNow'[1].callId = CallIdOf(lastFrame')
          \/ /\ sentNow' = <<>>
             /\ \E p \in pending' \ pending :
                  /\ pending' = pending \cup {p}
                  /\ p.id = CallIdOf(lastFrame')
     /\ (lastOp'.op = "toolDone" /\ state = "connected" /\ bridgeWs # 0) =>
          \E p \in pending \ pending' :
            /\ pending' = pending \ {p}
            /\ Len(sentNow') = 1
            /\ sentNow'[1].success \in BOOLEAN
            /\ sentNow'[1].callId = p.id]_vars

\* a closeTab call with callId c1 and no params made the handler throw, and
\* the reply reports the failure under c1
C23_Witness ==
  /\ lastOp.op = "message"
  /\ lastFrame.tool = "closeTab"
  /\ ~lastFrame.hasParams
  /\ state = "connected"
  /\ mgr = 1
  /\ sentNow = <<ToolResult(FALSE, "c1")>>

(* ======================= CdpClient (src/main/auth.ts) ================== *)

\* attachDebugger(): the flag and the sessions afterwards, given the flag,
\* the tabs `d` that have a session, the registry and the current tab
AttachDebuggerResult(flag, d, ts, cur) ==
  IF HasTab(ts, cur) /\ cur \notin d
    THEN [flag |-> TRUE, dbg |-> d \cup {cur}]
    ELSE [flag |-> flag, dbg |-> d]

\* detachDebugger(): the flag and the sessions afterwards; `throws` is
\* whether debugger.detach() throws
DetachDebuggerResult(flag, d, ts, cur, throws) ==
  IF ~flag THEN [flag |-> flag, dbg |-> d]
  ELSE IF HasTab(ts, cur) /\ cur \in d
    THEN IF throws
           THEN [flag |-> flag, dbg |-> d]
           ELSE [flag |-> FALSE, dbg |-> d \ {cur}]
    ELSE [flag |-> FALSE, dbg |-> d]

\* connect(): guard of the early return
CdpBusy == cdpState \in {"connected", "connecting"}

\* handleCdpConnect -> CdpClient.connect()
CdpConnect ==
  /\ windowOpen
  /\ IF CdpBusy
       THEN UNCHANGED <<cdpWs, cdpState, sockets>>
       ELSE IF urlValid
         THEN /\ CanCreateSocket
              /\ cdpState' = "connecting"
              /\ sockets' = [sockets EXCEPT ![NewSocketId] = FreshSocket]
              /\ cdpWs' = NewSocketId
         ELSE \* new WebSocket(url) throws
              /\ cdpState' = "error"
              /\ UNCHANGED <<cdpWs, sockets>>
  /\ lastOp' = Op("connect", 0, CdpBusy)
  /\ sentNow' = <<>>
  /\ lastOutcome' = NoOutcome
  /\ UNCHANGED <<tabVars, debuggerAttached, dbg, pending>>

\* handleCdpDisconnect -> CdpClient.disconnect()
CdpDisconnect(throws) ==
  /\ windowOpen
  /\ IF cdpWs # 0
       THEN sockets' = [sockets EXCEPT ![cdpWs] = LibClose(@, NO_STATUS)]
       ELSE UNCHANGED sockets
  /\ cdpWs' = 0
  /\ LET r == DetachDebuggerResult(debuggerAttached, dbg, tabs, currentTabId,
                                   throws) IN
       /\ debuggerAttached' = r.flag
       /\ dbg' = r.dbg
  /\ cdpState' = "disconnected"
  /\ lastOp' = OpX("disconnect", 0, debuggerAttached, throws)
  /\ sentNow' = <<>>
  /\ lastOutcome' = NoOutcome
  /\ UNCHANGED <<tabVars, pending>>

\* onOpen()
CdpOnOpen(s) ==
  /\ sockets[s].rs = "CONNECTING"
  /\ sockets' = [sockets EXCEPT ![s].rs = "OPEN", ![s].opened = TRUE]
  /\ cdpState' = "connected"
  /\ LET r == AttachDebuggerResult(debuggerAttached, dbg, tabs, currentTabId) IN
       /\ debuggerAttached' = r.flag
       /\ dbg' = r.dbg
  /\ lastOp' = Op("open", s, s = cdpWs)
  /\ sentNow' = <<>>
  /\ lastOutcome' = NoOutcome
  /\ UNCHANGED <<tabVars, cdpWs, pending>>

\* onError(error) on an established connection; the close event follows
CdpOnError(s) ==
  /\ sockets[s].rs = "OPEN"
  /\ sockets' = [sockets EXCEPT ![s].rs = "CLOSING"]
  /\ cdpState' = "error"
  /\ lastOp' = Op("error", s, s = cdpWs)
  /\ sentNow' = <<>>
  /\ lastOutcome' = NoOutcome
  /\ UNCHANGED <<tabVars, cdpWs, debuggerAttached, dbg, pending>>

\* onClose(code, reason)
CdpOnClose(s, code, throws) ==
  /\ code \in PossibleCloseCodes(s)
  /\ sockets' = [sockets EXCEPT ![s] = ClosedSocket]
  /\ cdpWs' = 0
  /\ LET r == DetachDebuggerResult(debuggerAttached, dbg, tabs, currentTabId,
                                   throws) IN
       /\ debuggerAttached' = r.flag
       /\ dbg' = r.dbg
  /\ cdpState' = "disconnected"
  /\ lastOp' = OpX("close", code, debuggerAttached, throws)
  /\ sentNow' = <<>>
  /\ lastOutcome' = NoOutcome
  /\ UNCHANGED <<tabVars, pending>>

\* the response is written when this.ws is open
CdpSend(resp) ==
  IF cdpWs # 0 /\ sockets[cdpWs].rs = "OPEN" THEN <<resp>> ELSE <<>>

\* onMessage(data) with a request {id, method}: executeCdpCommand up to
\* `await sendCommand`, or the error response when there is no active tab
CdpOnMessage(s, id) ==
  /\ Receiving(s)
  /\ IF HasTab(tabs, currentTabId)
       THEN /\ Cardinality(pending) < MaxCdpPending
            /\ debuggerAttached' =
                 (debuggerAttached \/ currentTabId \notin dbg)
            /\ dbg' = dbg \cup {currentTabId}
            /\ pending' = pending \cup
                            {[kind |-> "cdp", id |-> id, tab |-> currentTabId,
                              focus |-> "none", method |-> "m1",
                              args |-> "absent"]}
            /\ sentNow' = <<>>
       ELSE /\ sentNow' = CdpSend(Error(id, "No active tab", "none", {}))
            /\ UNCHANGED <<debuggerAttached, dbg, pending>>
  /\ lastOp' = Op("message", s, s = cdpWs)
  /\ lastOutcome' = NoOutcome
  /\ UNCHANGED <<tabVars, cdpWs, cdpState, sockets>>

\* onMessage after `await executeCdpCommand` settled
CdpContinue(p, out) ==
  /\ p \in pending
  /\ pending' = pending \ {p}
  /\ sentNow' = IF out.ok THEN CdpSend(Result(p.id, out.value, {}))
                ELSE CdpSend(Error(p.id, ErrorMessage(out), "none", {}))
  /\ lastOutcome' = out
  /\ lastOp' = Op("cdp", p.tab, HasTab(tabs, p.tab))
  /\ UNCHANGED <<tabVars, cdpVars, sockets, dbg>>

CdpTabIds == 0 .. (MaxCdpTabIds - 1)

\* the tab handlers of the renderer, served while the client is in use;
\* closeTab destroys the webContents, which ends its debugger session
CdpTabsNext ==
  /\ \/ CreateTab("u1")
     \/ \E t \in CdpTabIds : SwitchTo(t)
     \/ \E t \in CdpTabIds : CloseTab(t)
  /\ dbg' = dbg \cap Ids(tabs')
  /\ sentNow' = <<>>
  /\ lastOutcome' = NoOutcome
  /\ UNCHANGED <<cdpVars, sockets, pending>>

CdpScope ==
  /\ nextId <= MaxCdpTabIds
  /\ Cardinality({s \in SocketIds : sockets[s].rs \notin {"NONE", "CLOSED"}})
       <= MaxCdpSockets

CdpNext ==
  \/ CdpConnect
  \/ \E throws \in BOOLEAN : CdpDisconnect(throws)
  \/ \E s \in SocketIds : CdpOnOpen(s)
  \/ \E s \in SocketIds : CdpOnError(s)
  \/ \E s \in SocketIds, code \in CloseCodes, throws \in BOOLEAN :
       CdpOnClose(s, code, throws)
  \/ \E s \in SocketIds : CdpOnMessage(s, "a1")
  \/ \E p \in pending, out \in {Resolved("v1"), Rejected("e1")} :
       CdpContinue(p, out)
  \/ CdpTabsNext

NextCdp ==
  /\ impl = "cdp"
  /\ CdpNext
  /\ lastFrame' = NoFrame
  /\ UNCHANGED <<clientVars, storeVars, bridgeVars, timers, urlValid, impl,
                 syncVars,
                 requested, rejected>>
  /\ CdpScope'

\* the build wires the CdpClient in
InitCdp ==
  /\ tabs = StartupTabList
  /\ currentTabId = SwitchToCurrent(StartupTabList, -1, 0)
  /\ nextId = StartupTabs
  /\ attached = SwitchToViews(StartupTabList, {}, 0)
  /\ windowOpen = TRUE
  /\ mgr = 1
  /\ ws = 0
  /\ currentToken = NoToken
  /\ reconnectTimeout = 0
  /\ tabStates = EmptyMap
  /\ currentTabStates = EmptyMap
  /\ overlayStates = EmptyMap
  /\ authToken = NoToken
  /\ bridgeWs = 0
  /\ state = "disconnected"
  /\ reconnectTimer = 0
  /\ reconnectAttempts = 0
  /\ reconnectDelay = 0
  /\ cdpWs = 0
  /\ cdpState = "disconnected"
  /\ debuggerAttached = FALSE
  /\ sockets = [s \in SocketIds |-> NoSocket]
  /\ timers = {}
  /\ urlValid \in BOOLEAN
  /\ impl = "cdp"
  /\ requested = "none"
  /\ rejected = FALSE
  /\ issued = StartupIssued(1)
  /\ lastOp = Op("init", 0, FALSE)
  /\ dbg = {}
  /\ pending = {}
  /\ sentNow = <<>>
  /\ lastFrame = NoFrame
  /\ lastOutcome = NoOutcome
  /\ SyncIdle

SpecCdp == InitCdp /\ [][NextCdp]_vars

\* C29: when detachDebugger has run, in disconnect() or in the close
\* handler, the flag debuggerAttached is false, whether the tab had a
\* session, could not be found, or debugger.detach() threw.
C29_DetachAlwaysClearsFlag ==
  (impl = "cdp" /\ lastOp.op \in {"disconnect", "close"}) => ~debuggerAttached

\* C30: after closeTab(x) of a tab of the registry, x has no debugger
\* session, and when x held the only session none is recorded as attached.
C30_ClosedTabHasNoSession ==
  [][(impl = "cdp" /\ lastOp'.op = "closeTab" /\ lastOp'.pre) =>
       /\ lastOp'.arg \notin dbg'
       /\ (lastOp'.arg \in dbg /\ dbg \ {lastOp'.arg} = {}) =>
            ~debuggerAttached']_vars

(* ===================== remote connection, either build ================= *)

NextRemote ==
  \/ /\ impl = "client"
     /\ ClientNext
     /\ UNCHANGED <<tabVars, bridgeVars, urlValid, impl, syncVars, cdpVars,
                    dispatchVars>>
  \/ /\ impl = "bridge"
     /\ BridgeNext
     /\ UNCHANGED <<tabVars, clientVars, storeVars, urlValid, impl, syncVars,
                    cdpVars,
                    dispatchVars>>

SpecRemote == Init /\ [][NextRemote]_vars

(* ---------------------- remote connection claims ----------------------- *)

\* sockets constructed by the step
Created ==
  {s \in SocketIds : sockets'[s].rs = "CONNECTING" /\ sockets[s].rs # "CONNECTING"}

\* timers armed by a step that cancels none
Scheduled == timers' \ timers

CloseStep == lastOp'.op = "close"
TimerStep == lastOp'.op = "timer"

\* C5: a connect request made while the connection is connecting or
\* connected changes nothing: no socket is made and the connection state and
\* timers stay as they are.
C5_ConnectWhileActiveIsNoOp ==
  [][(lastOp'.op = "connect" /\ lastOp'.pre) =>
       UNCHANGED <<sockets, timers, ws, currentToken, reconnectTimeout,
                   bridgeWs, state, reconnectTimer, reconnectAttempts>>]_vars

\* C6: at most one socket is open or opening at any time.
C6_AtMostOneLiveSocket == Cardinality(LiveSockets) <= 1

C8_NoReconnectAfterAuthRejection ==
  [][/\ (CloseStep /\ lastOp'.arg = AUTH_REJECTED) => Scheduled = {}
     /\ (rejected /\ rejected') => (Scheduled = {} /\ Created = {})]_vars

\* C9: at most one reconnect timer is pending at any time.
C9_AtMostOnePendingTimer == Cardinality(timers) <= 1

\* C10: an explicit disconnect leaves no reconnect timer pending and closes
\* the socket it held with code 1000; from then until connect is requested
\* again no timer is armed and no socket is made, whenever the close event
\* of the socket arrives.
C10_DisconnectStopsReconnecting ==
  [][/\ lastOp'.op = "disconnect" =>
          /\ timers' = {}
          /\ \A s \in SocketIds :
               (s \in {ws, bridgeWs} /\ Live(s)) =>
                 (sockets'[s].rs = "CLOSING"
                    /\ sockets'[s].closeSent = NORMAL_CLOSURE)
     /\ (requested = "disconnect" /\ requested' = "disconnect") =>
          (Scheduled = {} /\ Created = {})]_vars

\* C12: handleAuthToken(null) leaves isAuthenticated() false, no socket open
\* or opening and no reconnect timer pending, and while the token stays null
\* no socket is made.
C12_LogoutForcesDisconnect ==
  [][/\ (lastOp'.op = "disconnect" /\ impl = "client") =>
          /\ authToken' = NoToken
          /\ LiveSockets' = {}
          /\ timers' = {}
     /\ (impl = "client" /\ authToken = NoToken /\ authToken' = NoToken) =>
          Created = {}]_vars

\* C18: the open event of a socket writes exactly one registration frame to
\* that socket; no socket ever carries more than one, and a socket that has
\* not opened carries none.
C18_OneRegistrationPerConnection ==
  [][\A s \in SocketIds :
       /\ (sockets[s].rs = "CONNECTING" /\ sockets'[s].rs = "OPEN") =>
            sockets'[s].reg = 1
       /\ sockets'[s].reg <= 1
       /\ ~sockets'[s].opened => sockets'[s].reg = 0]_vars

\* C36: the token carried by a registration frame is the token passed to
\* the most recent connect request (handleAuthToken with a token), also when
\* the registration belongs to an automatic reconnect or follows a connect
\* request that arrived while a connection was open.
C36_RegistrationCarriesLatestToken ==
  [][(impl = "client" /\ lastOp'.op = "open" /\ ConnectionOpen') =>
       sockets'[ws'].token = authToken']_vars

\* the edges the connection state may take
AllowedEdges ==
  {<<"disconnected", "connecting">>, <<"connecting", "connected">>,
   <<"connecting", "error">>, <<"connected", "error">>,
   <<"error", "disconnected">>, <<"connecting", "disconnected">>,
   <<"connected", "disconnected">>}

\* the values this.state takes during the step, in order: a connect() that
\* passes its guard sets connecting and, when the constructor throws, error
StatePath ==
  IF \/ (lastOp'.op = "connect" /\ ~lastOp'.pre)
     \/ (lastOp'.op = "timer" /\ lastOp'.pre)
    THEN IF state' = "error"
           THEN <<state, "connecting", "error">>
           ELSE <<state, "connecting">>
    ELSE <<state, state'>>

\* C24: the AgentBridge state changes only along disconnected->connecting,
\* connecting->connected, connecting->error, connected->error,
\* error->disconnected, connecting->disconnected and
\* connected->disconnected; so connected is entered only from connecting
\* and error is left only to disconnected.
C24_StateChangesAlongEdges ==
  [][impl = "bridge" =>
       \A i \in 1 .. (Len(StatePath) - 1) :
         \/ StatePath[i] = StatePath[i + 1]
         \/ <<StatePath[i], StatePath[i + 1]>> \in AllowedEdges]_vars

\* scheduleReconnect armed a timer in the step
BridgeArmed ==
  /\ impl = "bridge"
  /\ reconnectTimer' # 0
  /\ (reconnectTimer = 0 \/ TimerStep)

\* C25: the n-th reconnect attempt since the last open is armed with
\* 5000 * 2^(n-1) ms for n up to 4 and with 60000 ms from the fifth on; the
\* delay never exceeds 60000 ms; no timer is armed once 10 attempts were
\* made without an open; an open resets the count to 0.
C25_BackoffDelay ==
  [][/\ BridgeArmed =>
          /\ reconnectAttempts < 10
          /\ reconnectAttempts' = reconnectAttempts + 1
          /\ reconnectDelay' =
               IF reconnectAttempts' <= 4
                 THEN 5000 * 2 ^ (reconnectAttempts' - 1)
                 ELSE 60000
     /\ reconnectDelay' <= 60000
     /\ (impl = "bridge" /\ lastOp'.op = "open") => reconnectAttempts' = 0]_vars

\* the sixth attempt in a row is pending with the capped delay
C25_Witness ==
  /\ impl = "bridge"
  /\ reconnectTimer # 0
  /\ reconnectAttempts = 6
  /\ reconnectDelay = maxReconnectDelay


(* ============================== file-sync ============================== *)

FileIds == 1 .. MaxSyncFiles

\* the lists of distinct files a signed-urls message may carry
RECURSIVE FileLists(_)
FileLists(ids) ==
  {<<>>} \cup UNION {{<<f>> \o l : l \in FileLists(ids \ {f})} : f \in ids}

\* initFileSync(): localIds = loadLocalIds(), the ids metadata.txt holds
InitFileSync(ids) ==
  /\ lastSync.op = "none"
  /\ localIds' = ids
  /\ syncSent' = <<>>
  /\ lastSync' = SyncOp("init", isSyncing, localIds)
  /\ UNCHANGED <<syncWs, isSyncing, downloads>>

\* setWebSocket(websocket), called with the socket of a new connection
SetWebSocket ==
  /\ lastSync.op # "none"
  /\ syncWs # "OPEN"
  /\ syncWs' = "OPEN"
  /\ syncSent' = <<>>
  /\ lastSync' = SyncOp("setWebSocket", isSyncing, localIds)
  /\ UNCHANGED <<localIds, isSyncing, downloads>>

\* the connection is lost: the socket file-sync holds is closed
SyncSocketCloses ==
  /\ syncWs = "OPEN"
  /\ syncWs' = "CLOSED"
  /\ syncSent' = <<>>
  /\ lastSync' = SyncOp("close", isSyncing, localIds)
  /\ UNCHANGED <<localIds, isSyncing, downloads>>

\* deleteOrphanedFiles(orphanedIds): an id whose removal throws stays
DeleteOrphanedFiles(ids, orphanedIds, failed) == ids \ (orphanedIds \ failed)

\* requestSignedUrls(fileIds): the frame is written when ws is open
RequestSent(fileIds) ==
  IF syncWs = "OPEN"
    THEN <<[type |-> "request_signed_urls", file_ids |-> fileIds]>>
    ELSE <<>>

\* handleSyncMetadata: isSyncing when the handler returns, given the ids
\* the server has and the local ones do not
SyncingAfterMetadata(missingIds) == missingIds # {} /\ syncWs = "OPEN"

\* handleSyncMetadata(files), for a message received on the open connection;
\* failed are the orphaned ids whose removal from the disk throws
HandleSyncMetadata(serverIds, failed) ==
  /\ syncWs = "OPEN"
  /\ lastSync.op # "none"
  /\ IF isSyncing
       THEN /\ failed = {}
            /\ syncSent' = <<>>
            /\ UNCHANGED <<localIds, isSyncing>>
       ELSE LET missingIds == serverIds \ localIds
                orphanedIds == localIds \ serverIds
            IN  /\ failed \subseteq orphanedIds
                /\ localIds' = DeleteOrphanedFiles(localIds, orphanedIds, failed)
                /\ syncSent' = IF missingIds # {} THEN RequestSent(missingIds)
                               ELSE <<>>
                /\ isSyncing' = SyncingAfterMetadata(missingIds)
  /\ lastSync' = SyncOp("metadata", isSyncing, localIds)
  /\ UNCHANGED <<syncWs, downloads>>

\* handleSignedUrls(files), for a message received on the open connection:
\* the handler runs up to its first `await downloadFile`, or to its end
\* when the list is empty
HandleSignedUrls(files) ==
  /\ syncWs = "OPEN"
  /\ lastSync.op # "none"
  /\ IF files = <<>>
       THEN /\ isSyncing' = FALSE
            /\ UNCHANGED downloads
       ELSE /\ Len(downloads) < MaxSyncHandlers
            /\ downloads' = Append(downloads, files)
            /\ UNCHANGED isSyncing
  /\ syncSent' = <<>>
  /\ lastSync' = SyncOp("signedUrls", isSyncing, localIds)
  /\ UNCHANGED <<syncWs, localIds>>

\* the download the i-th handleSignedUrls call awaits settles: the handler
\* records the file when it was saved and goes on to the next file, or to
\* `isSyncing = false` after the last one
DownloadSettles(i, ok) ==
  /\ i \in 1 .. Len(downloads)
  /\ localIds' = IF ok THEN localIds \cup {Head(downloads[i])} ELSE localIds
  /\ IF Tail(downloads[i]) = <<>>
       THEN /\ downloads' = SubSeq(downloads, 1, i - 1)
                             \o SubSeq(downloads, i + 1, Len(downloads))
            /\ isSyncing' = FALSE
       ELSE /\ downloads' = [downloads EXCEPT ![i] = Tail(@)]
            /\ UNCHANGED isSyncing
  /\ syncSent' = <<>>
  /\ lastSync' = SyncOp("download", isSyncing, localIds)
  /\ UNCHANGED syncWs

DownloadStep ==
  \E i \in 1 .. MaxSyncHandlers, ok \in BOOLEAN : DownloadSettles(i, ok)

SyncNext ==
  \/ \E ids \in SUBSET FileIds : InitFileSync(ids)
  \/ SetWebSocket
  \/ SyncSocketCloses
  \/ \E serverIds \in SUBSET FileIds, failed \in SUBSET FileIds :
       HandleSyncMetadata(serverIds, failed)
  \/ \E files \in FileLists(FileIds) : HandleSignedUrls(files)
  \/ DownloadStep

NextSync ==
  /\ SyncNext
  /\ UNCHANGED <<tabVars, clientVars, storeVars, bridgeVars, envVars,
                 urlValid, impl, cdpVars, requested, rejected, lastOp,
                 dispatchVars>>

InitSync == Init /\ impl = "client" /\ urlValid

SpecSync == InitSync /\ [][NextSync]_vars

\* the event loop runs the continuation of every download that settles, and
\* every download settles (https.get ends in 'finish' or in 'error'); the
\* server is not obliged to send anything
FairSpecSync == SpecSync /\ WF_syncVars(DownloadStep)

(* --------------------------- file-sync claims -------------------------- *)

\* C40: file sync never wedges: whenever isSyncing is set it is false again
\* later, also when the signed-urls answer never arrives, so that a later
\* sync-metadata message is handled; and while isSyncing is set a further
\* sync-metadata message changes no local id and sends no request.
C40_SyncNeverWedges ==
  /\ [](isSyncing => <>(~isSyncing))
  /\ []((lastSync.op = "metadata" /\ lastSync.syncing) =>
          /\ localIds = lastSync.ids
          /\ syncSent = <<>>)

\* the part of C40 about a message that arrives while isSyncing is set
C40_IgnoredWhileSyncing ==
  (lastSync.op = "metadata" /\ lastSync.syncing) =>
    /\ localIds = lastSync.ids
    /\ syncSent = <<>>

====
